---------------------------- MODULE Spec2Model ----------------------------
(***************************************************************************)
(* State-machine model of the catalog, order-ledger and schema code of the *)
(* sales-operations application (src/app.py, src/seed_products.py,         *)
(* src/data/fix_suppliers.py).                                             *)
(*                                                                         *)
(* Text values are TLA+ strings; SQL NULL is the sentinel NULL.  Money is  *)
(* kept in thousandths of a currency unit (mills), so that rounding to two *)
(* decimals is a real operation.                                           *)
(***************************************************************************)
EXTENDS Integers, Sequences, FiniteSets, TLC

VARIABLES
    suppliers,      \* suppliers table: id -> name
    products,       \* products table: id -> [supplier_id, product_name, unit_pack_info, name]
    nextSupplierId, \* AUTOINCREMENT counter of suppliers
    nextProductId,  \* AUTOINCREMENT counter of products
    catalogLog,     \* what the last catalog operation was called with and returned
    users,          \* users table: id -> [username, role, full_name]
    nextUserId,     \* AUTOINCREMENT counter of users
    schema,         \* persisted structure: [tables, columns, indexes]
    schemaLog,      \* the last two reconcile calls: store before and after each
    orders,         \* orders table: sequence of rows, id = position
    today,          \* the calendar day (date.today())
    req,            \* per request handler: the request in flight and its position
    orderLog,       \* what the last order operation was called with and did
    rep_targets,      \* rep_targets table: sequence of rows, id = position
    supplier_targets, \* supplier_targets table
    supplier_actuals, \* supplier_actuals table
    rep_actuals,      \* rep_actuals table
    targetLog,        \* what the last target or actual request was and did
    canonIn,          \* a text handed to _canon
    canonOut,         \* what _canon returned for it, and for what it returned
    txn,              \* the connection of a running fix_suppliers.py: its uncommitted work
    viewLog           \* what the order sheet and the order history last rendered

catalogVars == <<suppliers, products, nextSupplierId, nextProductId, catalogLog>>
schemaVars  == <<users, nextUserId, schema, schemaLog>>
orderVars   == <<orders, today, req, orderLog>>
targetVars  == <<rep_targets, supplier_targets, supplier_actuals, rep_actuals, targetLog>>
canonVars   == <<canonIn, canonOut>>
vars == <<catalogVars, schemaVars, orderVars, targetVars, canonVars, txn, viewLog>>

-----------------------------------------------------------------------------
(* Bounds of the model *)

MaxRows == 2         \* rows in one import file
MaxSupplierId == 3   \* supplier ids handed out in one run
MaxProductId == 3    \* product ids handed out in one run
MaxOrders == 2       \* orders stored in one run
MaxDay == 2          \* calendar days one run spans
MaxUserId == 6       \* user ids handed out in one run
MaxReps == 2         \* entries of the REPS list that reset_reps inserts

Procs == {1, 2}      \* request handlers that may run at once

-----------------------------------------------------------------------------
(* Text: the string operations of Python and SQLite the code uses *)

NULL == "<NULL>"

Uppers == "ABCDEFGHIJKLMNOPQRSTUVWXYZ"
Lowers == "abcdefghijklmnopqrstuvwxyz"

CharAt(s, i) == SubSeq(s, i, i)

UpperSet == {CharAt(Uppers, i) : i \in 1..26}
LowerSet == {CharAt(Lowers, i) : i \in 1..26}
LowerOf == [c \in UpperSet |-> CharAt(Lowers, CHOOSE i \in 1..26 : CharAt(Uppers, i) = c)]
UpperOf == [c \in LowerSet |-> CharAt(Uppers, CHOOSE i \in 1..26 : CharAt(Lowers, i) = c)]

LowerChar(c) == IF c \in UpperSet THEN LowerOf[c] ELSE c
UpperChar(c) == IF c \in LowerSet THEN UpperOf[c] ELSE c
IsLetter(c) == c \in UpperSet \/ c \in LowerSet

RECURSIVE LowerChars(_)
LowerChars(s) ==
    IF s = "" THEN "" ELSE LowerChar(CharAt(s, 1)) \o LowerChars(SubSeq(s, 2, Len(s)))

IsSpace(c) == c = " "

RECURSIVE LStrip(_)
LStrip(s) == IF s # "" /\ IsSpace(CharAt(s, 1)) THEN LStrip(SubSeq(s, 2, Len(s))) ELSE s

RECURSIVE RStrip(_)
RStrip(s) == IF s # "" /\ IsSpace(CharAt(s, Len(s))) THEN RStrip(SubSeq(s, 1, Len(s) - 1)) ELSE s

StripChars(s) == RStrip(LStrip(s))

\* COALESCE(a, b, c): the first value that is not NULL
Coalesce3(a, b, c) == IF a # NULL THEN a ELSE IF b # NULL THEN b ELSE c
Coalesce2(a, b) == IF a # NULL THEN a ELSE b

-----------------------------------------------------------------------------
(* The texts of the catalog: import files, the merge list, a legacy table.    *)
(* str.lower() and str.strip() are tabulated once for these texts and         *)
(* computed character by character for any other.                             *)

\* The rows an import file may hold
RowInputs ==
    { [supplier |-> "Haco Ind",   product |-> "Salt 1 x 48", pack |-> ""],
      [supplier |-> " haco ind ", product |-> "salt",        pack |-> "1X48"],
      [supplier |-> "Haco  Ind",  product |-> "Salt 1 x 48", pack |-> ""],
      [supplier |-> "Haco Ind",   product |-> "Salt 1 x 48", pack |-> "Z"],
      [supplier |-> "Haco Industries Ltd", product |-> "Salt 1x48", pack |-> ""],
      [supplier |-> "",           product |-> "Salt",        pack |-> ""] }

\* MERGES (fix_suppliers.py), one entry
MergeInputs ==
    { [good |-> "Haco Industries Ltd", bad_variants |-> <<"Haco Ind", "Haco Industries LTD">>] }

\* the row of a products table made by import_products.py
LegacyProducts ==
    (1 :> [supplier_id |-> 1, product_name |-> NULL, unit_pack_info |-> NULL,
           name |-> "Salt 1X48"])

FileTexts ==
    UNION {{r.supplier, r.product, r.pack} : r \in RowInputs}
    \cup UNION {{m.good} \cup {m.bad_variants[i] : i \in DOMAIN m.bad_variants} :
                   m \in MergeInputs}
    \cup {LegacyProducts[i].name : i \in DOMAIN LegacyProducts}

WithStripped(texts) == texts \cup {StripChars(t) : t \in texts}

Fields == WithStripped(FileTexts)

\* a field, or two fields joined as the import joins name and pack
Joined(F) ==
    F \cup WithStripped({a \o " " \o b : a \in F, b \in F})
      \cup {StripChars(a \o " (" \o b \o ")") : a \in F, b \in F}

KnownTexts == Joined(Fields)

LowerTable == [t \in KnownTexts |-> LowerChars(t)]
StripTable == [t \in KnownTexts |-> StripChars(t)]

Lower(s) == IF s \in KnownTexts THEN LowerTable[s] ELSE LowerChars(s)
Strip(s) == IF s \in KnownTexts THEN StripTable[s] ELSE StripChars(s)

StartsWith(s, t) == Len(s) >= Len(t) /\ SubSeq(s, 1, Len(t)) = t
EndsWith(s, t) == Len(s) >= Len(t) /\ SubSeq(s, Len(s) - Len(t) + 1, Len(s)) = t

RECURSIVE Contains(_, _)
Contains(s, t) ==
    IF Len(s) < Len(t) THEN FALSE
    ELSE StartsWith(s, t) \/ Contains(SubSeq(s, 2, Len(s)), t)

\* str.replace(old, new): left to right, non-overlapping occurrences
RECURSIVE Replace(_, _, _)
Replace(s, old, new) ==
    IF Len(s) < Len(old) THEN s
    ELSE IF StartsWith(s, old)
         THEN new \o Replace(SubSeq(s, Len(old) + 1, Len(s)), old, new)
         ELSE CharAt(s, 1) \o Replace(SubSeq(s, 2, Len(s)), old, new)

\* while "  " in s: s = s.replace("  ", " ")
RECURSIVE CollapseSpaces(_)
CollapseSpaces(s) == IF Contains(s, "  ") THEN CollapseSpaces(Replace(s, "  ", " ")) ELSE s

\* " ".join(s.split())
RECURSIVE SplitJoin(_)
SplitJoin(s) ==
    LET t == LStrip(s) IN
    IF t = "" THEN ""
    ELSE LET n == CHOOSE k \in 1..Len(t) :
                      /\ \A i \in 1..k : ~IsSpace(CharAt(t, i))
                      /\ (k = Len(t) \/ IsSpace(CharAt(t, k + 1)))
             rest == SplitJoin(SubSeq(t, n + 1, Len(t)))
         IN SubSeq(t, 1, n) \o (IF rest = "" THEN "" ELSE " " \o rest)

-----------------------------------------------------------------------------
(* Canonicalization (app.py _canon, _canon_pair; fix_suppliers.py _norm) *)

\* s = s.lower().strip(); s = s.replace("×", "x"); while "  " in s: ...
CanonSpaces(text) == CollapseSpaces(Replace(Lower(Strip(text)), "×", "x"))

\* .replace(" x ", "x").replace(" x", "x").replace("x ", "x")
CanonTimes(s) == Replace(Replace(Replace(s, " x ", "x"), " x", "x"), "x ", "x")

\* the unit spellings: pkt/pkts, gms/gm, kgs, mls; then .replace("  ", " ")
CanonUnits(s) ==
    Replace(
      Replace(Replace(
        Replace(Replace(
          Replace(Replace(Replace(Replace(
            Replace(Replace(s, "pkt", "pk"), "pkts", "pk"),
            " gms", " g"), " gm", " g"), "gms", "g"), "gm", "g"),
          " kgs", " kg"), "kgs", "kg"),
        " mls", " ml"), "mls", "ml"),
      "  ", " ")

\* if s.endswith(" " + letter): s = s[:-2] + letter
CanonTrailing(s, letter) ==
    IF EndsWith(s, " " \o letter) THEN SubSeq(s, 1, Len(s) - 2) \o letter ELSE s

_canon(text) ==
    IF text = "" \/ text = NULL THEN ""
    ELSE CanonTrailing(CanonTrailing(CanonUnits(CanonTimes(CanonSpaces(text))), "z"), "v")

\* _canon, tabulated once for the texts of the catalog
CanonTable == [t \in KnownTexts |-> _canon(t)]
Canon(text) == IF text \in KnownTexts THEN CanonTable[text] ELSE _canon(text)

\* _canon(f"{prod_name or ''} {pack or ''}".strip())
_canon_pair(prod_name, pack) ==
    Canon(Strip((IF prod_name = NULL THEN "" ELSE prod_name) \o " "
                \o (IF pack = NULL THEN "" ELSE pack)))

_norm(s) == IF s = NULL THEN "" ELSE Lower(Strip(SplitJoin(s)))

\* _norm, tabulated once for the texts of the catalog
NormTable == [t \in Fields |-> _norm(t)]
Norm(s) == IF s \in Fields THEN NormTable[s] ELSE _norm(s)

\* Texts handed to _canon: up to MaxTokens of these pieces, one after the other
MaxTokens == 3

CanonTokens == {"5", "K", " ", "x", "z", "v", "m", "s", "pkt", "pkts", "gm", "gms", "kgs", "mls"}

RECURSIVE TokenTexts(_)
TokenTexts(n) ==
    IF n = 0 THEN {""}
    ELSE TokenTexts(n - 1) \cup {t \o c : t \in TokenTexts(n - 1), c \in CanonTokens}

CanonInputs == TokenTexts(MaxTokens)

\* the text the next call of _canon is given: the input, then what _canon returned
CanonArg(in, out) == IF out = <<>> THEN in ELSE out[Len(out)]

\* canonicalize(x), and canonicalize of its result
canonicalize ==
    /\ Len(canonOut) < 2
    /\ canonOut' = Append(canonOut, _canon(CanonArg(canonIn, canonOut)))
    /\ UNCHANGED <<canonIn, catalogVars, schemaVars, orderVars, targetVars, txn, viewLog>>

InitCanonVars ==
    /\ canonIn = ""
    /\ canonOut = <<>>

-----------------------------------------------------------------------------
(* Numbers as the order form sends them: text, parsed by int() and float() *)

Digits == "0123456789"
DigitSet == {CharAt(Digits, i) : i \in 1..10}
DigitOf == [c \in DigitSet |-> (CHOOSE i \in 1..10 : CharAt(Digits, i) = c) - 1]
IsDigit(c) == c \in DigitSet
DigitVal(c) == DigitOf[c]

\* str.isdigit(): non-empty and every character a digit
IsDigits(s) == s # "" /\ \A i \in 1..Len(s) : IsDigit(CharAt(s, i))

RECURSIVE NatOf(_)
NatOf(s) == IF s = "" THEN 0 ELSE NatOf(SubSeq(s, 1, Len(s) - 1)) * 10 + DigitVal(CharAt(s, Len(s)))

Unsigned(s) == IF StartsWith(s, "-") THEN SubSeq(s, 2, Len(s)) ELSE s
Sign(s) == IF StartsWith(s, "-") THEN -1 ELSE 1

\* int(s) accepts an optional sign and digits, anything else is a ValueError
IntOk(s) == IsDigits(Unsigned(Strip(s)))
IntOf(s) == Sign(Strip(s)) * NatOf(Unsigned(Strip(s)))

\* float(s) for decimal text with up to three decimals, as mills
DotAt(s) == IF \E i \in 1..Len(s) : CharAt(s, i) = "."
            THEN CHOOSE i \in 1..Len(s) : CharAt(s, i) = "." ELSE 0
FloatOk(s) ==
    LET u == Unsigned(Strip(s))
        d == DotAt(u)
    IN IF d = 0 THEN IsDigits(u)
       ELSE /\ IsDigits(SubSeq(u, 1, d - 1) \o SubSeq(u, d + 1, Len(u)))
            /\ Len(u) - d <= 3
FloatMills(s) ==
    LET u == Unsigned(Strip(s))
        d == DotAt(u)
        whole == IF d = 0 THEN u ELSE SubSeq(u, 1, d - 1)
        frac == IF d = 0 THEN "" ELSE SubSeq(u, d + 1, Len(u))
        pad == frac \o SubSeq("000", 1, 3 - Len(frac))
    IN Sign(Strip(s)) * (NatOf(whole) * 1000 + NatOf(pad))

\* int(x) of a float: truncation toward zero (mills -> whole units)
TruncUnits(m) == IF m >= 0 THEN m \div 1000 ELSE -((-m) \div 1000)

\* round(x, 2) of a value held in mills: nearest cent, ties to the even cent
Round2(m) ==
    LET a == IF m >= 0 THEN m ELSE -m
        q == a \div 10
        r == a % 10
        up == r > 5 \/ (r = 5 /\ q % 2 = 1)
        c == (IF up THEN q + 1 ELSE q) * 10
    IN IF m >= 0 THEN c ELSE -c

-----------------------------------------------------------------------------
(* Persisted structure: has_column / table_exists over the schema record *)

\* A table's rows: a function from row id to row
Ids(table) == DOMAIN table

\* fetchone() of a SELECT without ORDER BY: the matching row of least rowid
FirstId(S) == CHOOSE i \in S : \A j \in S : i <= j

Put(table, id, row) == [i \in (DOMAIN table) \cup {id} |-> IF i = id THEN row ELSE table[i]]
Drop(table, S) == [i \in (DOMAIN table) \ S |-> table[i]]

has_column(sch, table, column) == <<table, column>> \in sch.columns
table_exists(sch, name) == name \in sch.tables

-----------------------------------------------------------------------------
(* Schema Evolution Engine: ensure_schema over store = [schema, products, users, *)
(* nextUserId]                                                              *)

CreateTable(sch, t, cols, idx) ==
    IF table_exists(sch, t) THEN sch
    ELSE [tables |-> sch.tables \cup {t},
          columns |-> sch.columns \cup {<<t, c>> : c \in cols},
          indexes |-> sch.indexes \cup idx]

AddColumn(sch, t, c) == [sch EXCEPT !.columns = @ \cup {<<t, c>>}]
CreateIndex(sch, name) == [sch EXCEPT !.indexes = @ \cup {name}]

RECURSIVE AddMissing(_, _, _)
AddMissing(sch, t, cols) ==
    IF cols = <<>> THEN sch
    ELSE AddMissing(IF has_column(sch, t, Head(cols)) THEN sch ELSE AddColumn(sch, t, Head(cols)),
                    t, Tail(cols))

\* UPDATE products SET product_name = COALESCE(product_name, name)
\* WHERE product_name IS NULL OR product_name = ''
Backfill(prods) ==
    [i \in Ids(prods) |->
        IF prods[i].product_name = NULL \/ prods[i].product_name = ""
        THEN [prods[i] EXCEPT !.product_name = Coalesce2(prods[i].product_name, prods[i].name)]
        ELSE prods[i]]

\* ensure_schema lines 91-139: users, suppliers, products and their soft migrations
ReconcileCatalog(st) ==
    LET s1 == CreateTable(st.schema, "users",
                 {"id", "username", "password_hash", "role", "created_at", "full_name"}, {})
        s2 == CreateTable(s1, "suppliers", {"id", "name"}, {})
        s3 == CreateTable(s2, "products",
                 {"id", "supplier_id", "product_name", "unit_pack_info"}, {})
        s4 == AddMissing(s3, "products", <<"name">>)
        addPn == ~has_column(s4, "products", "product_name")
        s5 == AddMissing(s4, "products", <<"product_name", "unit_pack_info", "supplier_id">>)
    IN [st EXCEPT !.schema = s5,
                  !.products = IF addPn /\ has_column(s4, "products", "name")
                               THEN Backfill(@) ELSE @]

\* ensure_schema lines 140-182: orders
ReconcileOrders(sch) ==
    LET s1 == CreateTable(sch, "orders", {"id", "created_at", "total"}, {})
        s2 == AddMissing(s1, "orders",
                 <<"created_at", "total", "supplier_id", "product_id", "quantity", "notes">>)
        s3 == IF has_column(s2, "orders", "order_no") THEN s2
              ELSE CreateIndex(AddColumn(s2, "orders", "order_no"), "idx_orders_order_no")
    IN AddMissing(s3, "orders",
          <<"unit_price", "payment_method", "status", "delivery_date", "currency",
            "customer_name", "customer_location", "line_items", "sales_rep_name">>)

\* ensure_schema lines 184-225: targets and actuals
ReconcileTargets(sch) ==
    LET cols(owner, val) == {"id", owner, "month", "year", val}
        s1 == CreateTable(sch, "rep_targets", cols("rep_id", "target_value"), {})
        s2 == CreateTable(s1, "supplier_targets", cols("supplier_id", "target_value"), {})
        s3 == CreateIndex(CreateIndex(s2, "idx_supplier_targets_unique"),
                          "idx_rep_targets_unique")
        s4 == CreateTable(s3, "supplier_actuals", cols("supplier_id", "mtd_value"),
                          {"sqlite_autoindex_supplier_actuals_1"})
    IN CreateTable(s4, "rep_actuals", cols("rep_id", "mtd_value"),
                   {"sqlite_autoindex_rep_actuals_1"})

HasUserNever(us, uname) == FALSE

\* SELECT 1 FROM users WHERE username = ?
HasUser(us, uname) == \E i \in Ids(us) : us[i].username = uname

\* INSERT INTO users(username, password_hash, role, created_at, full_name)
AddUser(st, uname, role, full_name) ==
    [st EXCEPT !.users = Put(@, st.nextUserId,
                             [username |-> uname, role |-> role, full_name |-> full_name]),
               !.nextUserId = @ + 1]

\* ensure_schema lines 229-242: seed users
SeedUsersIfEmpty(st) ==
    IF Ids(st.users) # {} THEN st
    ELSE AddUser(AddUser(st, "admin", "admin", "Administrator"), "staff", "rep", "Staff")

SeedUsers(st) ==
    LET a == IF HasUser(st.users, "admin") THEN st
             ELSE AddUser(st, "admin", "admin", "Administrator")
    IN IF HasUser(a.users, "staff") THEN a ELSE AddUser(a, "staff", "rep", "Staff")

\* The INSERTs of the seed name the full_name column: on a users table without it
\* the first INSERT that runs raises sqlite3.OperationalError and nothing is added
SeedFails(st) ==
    /\ ~has_column(st.schema, "users", "full_name")
    /\ ~(HasUser(st.users, "admin") /\ HasUser(st.users, "staff"))

ensure_schema(st) ==
    LET c == ReconcileCatalog(st)
        r == [c EXCEPT !.schema = ReconcileTargets(ReconcileOrders(@))]
    IN IF SeedFails(r) THEN r ELSE SeedUsers(r)

Store == [schema |-> schema, products |-> products, users |-> users,
          nextUserId |-> nextUserId]

-----------------------------------------------------------------------------
(* Catalog Manager: suppliers and products *)

\* _upsert_supplier(conn, supplier_name) -> [suppliers, nextSupplierId, id]
_upsert_supplier(supps, nextId, supplier_name) ==
    LET nm == Strip(IF supplier_name = NULL THEN "" ELSE supplier_name)
        lnm == Lower(nm)
        hit == {i \in Ids(supps) : Lower(supps[i]) = lnm}
    IN IF nm = "" THEN [suppliers |-> supps, nextSupplierId |-> nextId, id |-> 0]
       ELSE IF hit # {} THEN [suppliers |-> supps, nextSupplierId |-> nextId, id |-> FirstId(hit)]
       ELSE [suppliers |-> Put(supps, nextId, nm), nextSupplierId |-> nextId + 1, id |-> nextId]

StoredKeyNameOnly(p) == _canon_pair(Coalesce3(p.product_name, p.name, ""), "")

\* the key a stored product row is compared by (_load_existing's SELECT)
StoredKey(p) ==
    _canon_pair(Coalesce3(p.product_name, p.name, ""), Coalesce2(p.unit_pack_info, ""))

\* _load_existing(sid): the keys of the supplier's stored products
LoadedKeys(prods, sid) == {StoredKey(prods[i]) : i \in {j \in Ids(prods) : prods[j].supplier_id = sid}}

_load_existing_bad(existing, prods, sid) ==
    IF sid \in DOMAIN existing THEN existing
    ELSE [s \in (DOMAIN existing) \cup {sid} |-> IF s = sid THEN {} ELSE existing[s]]

_load_existing(existing, prods, sid) ==
    IF sid \in DOMAIN existing THEN existing
    ELSE [s \in (DOMAIN existing) \cup {sid} |->
            IF s = sid THEN LoadedKeys(prods, sid) ELSE existing[s]]

\* seed_products.py name_exists(sid, nm)
name_exists(sch, prods, sid, nm) ==
    /\ has_column(sch, "products", "name")
    /\ \E i \in Ids(prods) :
          /\ prods[i].supplier_id = sid
          /\ prods[i].name # NULL
          /\ Lower(prods[i].name) = Lower(Strip(nm))

\* seed_products.py: the legacy name, disambiguated when it collides
Numbered(candidate, i) == candidate \o " #" \o CharAt(Digits, i + 1)

\* i = 2; while name_exists(sid, f"{candidate} #{i}"): i += 1
FirstFree(sch, prods, sid, candidate) ==
    CHOOSE i \in 2..9 : \A j \in 2..i :
        name_exists(sch, prods, sid, Numbered(candidate, j)) <=> j < i

DisambiguatedName(sch, prods, sid, base, candidate) ==
    IF ~name_exists(sch, prods, sid, base) THEN base
    ELSE IF ~name_exists(sch, prods, sid, candidate) THEN candidate
    ELSE Numbered(candidate, FirstFree(sch, prods, sid, candidate))

SeedLegacyName(sch, prods, sid, product_name, unit_pack) ==
    DisambiguatedName(sch, prods, sid, Strip(product_name),
                      Strip(IF unit_pack # "" THEN product_name \o " (" \o unit_pack \o ")"
                            ELSE product_name))

\* UNIQUE(supplier_id, name) of a products table created by import_products.py:
\* the INSERT raises sqlite3.IntegrityError
UniqueNameViolated(sch, prods, row) ==
    /\ "sqlite_autoindex_products_1" \in sch.indexes
    /\ \E i \in Ids(prods) : /\ prods[i].supplier_id = row.supplier_id
                             /\ prods[i].name = row.name

\* One row of the import loop.  st is the loop's state:
\* [suppliers, products, nextSupplierId, nextProductId, existing, added, skipped,
\*  failed]
ProductRow(sch, sid, product_name, unit_pack, legacy) ==
    [supplier_id |-> sid, product_name |-> product_name,
     unit_pack_info |-> IF unit_pack = "" THEN NULL ELSE unit_pack,
     name |-> IF has_column(sch, "products", "name") THEN legacy ELSE NULL]

\* the INSERT INTO products of one row, and existing[sid].add(cand)
InsertProduct(sch, st, existing, sid, cand, row) ==
    IF UniqueNameViolated(sch, st.products, row)
    THEN [st EXCEPT !.failed = TRUE]
    ELSE [st EXCEPT !.existing = [existing EXCEPT ![sid] = @ \cup {cand}],
                    !.products = Put(@, st.nextProductId, row),
                    !.nextProductId = @ + 1,
                    !.added = @ + 1]

\* the row once its supplier is resolved to sid: skipped when its key is already
\* among the supplier's, inserted otherwise
ImportProduct(sch, st, existing, sid, cand, product_name, unit_pack, impl) ==
    IF sid <= 0
    THEN [st EXCEPT !.skipped = @ + 1]
    ELSE IF cand \in existing[sid]
    THEN [st EXCEPT !.existing = existing, !.skipped = @ + 1]
    ELSE InsertProduct(sch, st, existing, sid, cand,
            ProductRow(sch, sid, product_name, unit_pack,
                       IF impl = "seed"
                       THEN SeedLegacyName(sch, st.products, sid, product_name, unit_pack)
                       ELSE product_name))

ImportUpserted(sch, st, up, product_name, unit_pack, impl) ==
    ImportProduct(sch,
                  [st EXCEPT !.suppliers = up.suppliers, !.nextSupplierId = up.nextSupplierId],
                  _load_existing(st.existing, st.products, up.id), up.id,
                  _canon_pair(product_name, unit_pack), product_name, unit_pack, impl)

ImportFields(sch, st, supplier_name, product_name, unit_pack, impl) ==
    IF supplier_name = "" \/ product_name = ""
    THEN [st EXCEPT !.skipped = @ + 1]
    ELSE ImportUpserted(sch, st,
                        _upsert_supplier(st.suppliers, st.nextSupplierId, supplier_name),
                        product_name, unit_pack, impl)

ImportRow(sch, st, r, impl) ==
    ImportFields(sch, st, Strip(r.supplier), Strip(r.product), Strip(r.pack), impl)

RECURSIVE ImportRows(_, _, _, _)
ImportRows(sch, st, rows, impl) ==
    IF rows = <<>> \/ st.failed THEN st
    ELSE ImportRows(sch, ImportRow(sch, st, Head(rows), impl), Tail(rows), impl)

ImportStart(supps, prods, nSid, nPid) ==
    [suppliers |-> supps, products |-> prods, nextSupplierId |-> nSid,
     nextProductId |-> nPid, existing |-> <<>>, added |-> 0, skipped |-> 0,
     failed |-> FALSE]

RowSeqs == UNION {[1..n -> RowInputs] : n \in 1..MaxRows}

NoLog == [op |-> "none", impl |-> "", failed |-> FALSE, preSuppliers |-> <<>>,
          preProducts |-> <<>>, good |-> "", variants |-> <<>>, goodId |-> 0,
          added |-> 0, skipped |-> 0]

\* conn.commit() at the end of the loop; an exception leaves the transaction
\* uncommitted and nothing is persisted
ImportCommit(st, start, impl) ==
    /\ st.nextSupplierId <= MaxSupplierId + 1
    /\ st.nextProductId <= MaxProductId + 1
    /\ suppliers' = IF st.failed THEN start.suppliers ELSE st.suppliers
    /\ products' = IF st.failed THEN start.products ELSE st.products
    /\ nextSupplierId' = IF st.failed THEN start.nextSupplierId ELSE st.nextSupplierId
    /\ nextProductId' = IF st.failed THEN start.nextProductId ELSE st.nextProductId
    /\ catalogLog' = [NoLog EXCEPT !.op = "import", !.impl = impl, !.failed = st.failed,
                                   !.added = st.added, !.skipped = st.skipped]
    /\ UNCHANGED <<schemaVars, orderVars, targetVars, canonVars, viewLog, txn>>

\* import_products: products_upload (app.py) and main (seed_products.py)
import_products(rows, impl) ==
    ImportCommit(ImportRows(schema,
                            ImportStart(suppliers, products, nextSupplierId, nextProductId),
                            rows, impl),
                 ImportStart(suppliers, products, nextSupplierId, nextProductId), impl)

products_upload == \E rows \in RowSeqs : import_products(rows, "upload")
seed_products_main == \E rows \in RowSeqs : import_products(rows, "seed")

\* The rows of the file import_products.py reads
LegacyRows ==
    { [supplier |-> "Haco Ind", product |-> "Salt 1X48", pack |-> ""],
      [supplier |-> "Haco Ind", product |-> "Rice 5kg", pack |-> "5kg"],
      [supplier |-> "Kapa Oil", product |-> "", pack |-> ""] }

\* import_products.py ensure_tables
ensure_tables(sch) ==
    CreateTable(CreateTable(sch, "suppliers", {"id", "name"}, {}),
                "products", {"id", "supplier_id", "name", "unit_pack_info"}, {})

\* import_products.py get_or_create_supplier -> [suppliers, nextSupplierId, id]
get_or_create_supplier(supps, nextId, name) ==
    IF \E i \in Ids(supps) : supps[i] = name
    THEN [suppliers |-> supps, nextSupplierId |-> nextId,
          id |-> FirstId({i \in Ids(supps) : supps[i] = name})]
    ELSE [suppliers |-> Put(supps, nextId, name), nextSupplierId |-> nextId + 1,
          id |-> nextId]

\* the products of the supplier with this legacy name
NamedProducts(prods, sid, name) ==
    {i \in Ids(prods) : prods[i].supplier_id = sid /\ prods[i].name = name}

\* import_products.py upsert_product on the row found
UpdatePack(prods, i, unit_pack) ==
    IF Coalesce2(prods[i].unit_pack_info, "") # unit_pack
    THEN [prods EXCEPT ![i].unit_pack_info = unit_pack] ELSE prods

\* import_products.py upsert_product -> [products, nextProductId]: the INSERT names
\* supplier_id, name and unit_pack_info, and no product_name
upsert_product(prods, nextId, sid, name, unit_pack) ==
    IF NamedProducts(prods, sid, name) # {}
    THEN [products |-> UpdatePack(prods, FirstId(NamedProducts(prods, sid, name)), unit_pack),
          nextProductId |-> nextId]
    ELSE [products |-> Put(prods, nextId,
                           [supplier_id |-> sid, product_name |-> NULL,
                            unit_pack_info |-> unit_pack, name |-> name]),
          nextProductId |-> nextId + 1]

\* the commit of import_products.py main for a file of one row, whose supplier is
\* resolved as sup
LegacyCommit(sup, prod) ==
    /\ sup.nextSupplierId <= MaxSupplierId + 1
    /\ prod.nextProductId <= MaxProductId + 1
    /\ schema' = ensure_tables(schema)
    /\ suppliers' = sup.suppliers
    /\ nextSupplierId' = sup.nextSupplierId
    /\ products' = prod.products
    /\ nextProductId' = prod.nextProductId
    /\ catalogLog' = [NoLog EXCEPT !.op = "import_products"]
    /\ schemaLog' = [last |-> "import_products", twice |-> FALSE, raised |-> FALSE,
                     before |-> <<>>, after |-> <<>>]
    /\ UNCHANGED <<users, nextUserId, orderVars, targetVars, canonVars, viewLog, txn>>

LegacyUpsert(sup, product, pack) ==
    LegacyCommit(sup, upsert_product(products, nextProductId, sup.id, product, pack))

\* import_products.py main: a row without supplier or product is passed over
import_products_main(r) ==
    IF Strip(r.supplier) = "" \/ Strip(r.product) = ""
    THEN LegacyCommit([suppliers |-> suppliers, nextSupplierId |-> nextSupplierId],
                      [products |-> products, nextProductId |-> nextProductId])
    ELSE LegacyUpsert(get_or_create_supplier(suppliers, nextSupplierId, Strip(r.supplier)),
                      Strip(r.product), Strip(r.pack))

\* fix_suppliers.py find_supplier_by_normalized: the id of the first match, 0 for None
find_supplier_by_normalized(supps, target_name) ==
    LET tnorm == Norm(target_name)
        hit == {i \in Ids(supps) : Norm(supps[i]) = tnorm}
    IN IF hit = {} THEN 0 ELSE FirstId(hit)

\* ensure_good_supplier(cur, good_name) -> [suppliers, nextSupplierId, id]
ensure_good_supplier(supps, nextId, good_name) ==
    LET row == find_supplier_by_normalized(supps, good_name)
    IN IF row # 0 THEN [suppliers |-> supps, nextSupplierId |-> nextId, id |-> row]
       ELSE [suppliers |-> Put(supps, nextId, good_name), nextSupplierId |-> nextId + 1,
             id |-> nextId]

\* DELETE FROM suppliers WHERE id = ? with foreign_keys = ON: products that still
\* reference the row go with it (ON DELETE CASCADE)
DeleteSupplier(st, sid) ==
    [st EXCEPT !.suppliers = Drop(@, {sid}),
               !.products = Drop(@, {i \in Ids(st.products) : st.products[i].supplier_id = sid})]

\* merge_one(cur, good_name, bad_name) on st = [suppliers, products]
merge_one(st, good_name, bad_name) ==
    LET bad_id == find_supplier_by_normalized(st.suppliers, bad_name)
        good_id == find_supplier_by_normalized(st.suppliers, good_name)
        relinked == [st EXCEPT !.products =
                        [i \in Ids(st.products) |->
                            IF st.products[i].supplier_id = bad_id
                            THEN [st.products[i] EXCEPT !.supplier_id = good_id]
                            ELSE st.products[i]]]
    IN IF bad_id = 0 THEN st
       ELSE IF good_id = 0 THEN [st EXCEPT !.suppliers[bad_id] = good_name]
       ELSE IF good_id = bad_id THEN st
       ELSE DeleteSupplier(relinked, bad_id)

RECURSIVE MergeVariants(_, _, _)
MergeVariants(st, good_name, variants) ==
    IF variants = <<>> THEN st
    ELSE MergeVariants(merge_one(st, good_name, Head(variants)), good_name, Tail(variants))

\* One entry of the loop of fix_suppliers.py main, on st = [suppliers, products,
\* nextSupplierId]: ensure_good_supplier, then merge_one for each variant
MergeEntry(st, m) ==
    LET good == Strip(SplitJoin(m.good))
        eg == ensure_good_supplier(st.suppliers, st.nextSupplierId, good)
        done == MergeVariants([suppliers |-> eg.suppliers, products |-> st.products],
                              good, m.bad_variants)
    IN [suppliers |-> done.suppliers, products |-> done.products,
        nextSupplierId |-> eg.nextSupplierId, good |-> good, goodId |-> eg.id]

\* con.commit()
MergeCommit(st, m) ==
    /\ st.nextSupplierId <= MaxSupplierId + 1
    /\ suppliers' = st.suppliers
    /\ products' = st.products
    /\ nextSupplierId' = st.nextSupplierId
    /\ catalogLog' = [NoLog EXCEPT !.op = "merge", !.preSuppliers = suppliers,
                                   !.preProducts = products, !.good = st.good,
                                   !.variants = m.bad_variants, !.goodId = st.goodId]
    /\ UNCHANGED <<nextProductId, schemaVars, orderVars, targetVars, canonVars, viewLog, txn>>

\* Entries of the merge map (fix_suppliers.py MERGES): a canonical name and variants
\* merge_supplier(canonical_name, variant_names)
merge_supplier(m) ==
    MergeCommit(MergeEntry([suppliers |-> suppliers, products |-> products,
                            nextSupplierId |-> nextSupplierId], m), m)

fix_suppliers_main == \E m \in MergeInputs : merge_supplier(m)

\* no fix_suppliers.py is running
NoTxn == [pc |-> "closed", suppliers |-> <<>>, products |-> <<>>, nextSupplierId |-> 0,
          good |-> "", todo |-> <<>>, bad_id |-> 0]

InitTxn == txn = NoTxn

\* the store as committed
Persisted == [suppliers |-> suppliers, products |-> products, nextSupplierId |-> nextSupplierId]

WriteThroughAlways(work, store) ==
    [suppliers |-> work.suppliers, products |-> work.products,
     nextSupplierId |-> work.nextSupplierId]

\* what the committed store holds after a statement of the connection has run and
\* before con.commit(): sqlite3 opens a transaction at the first INSERT, UPDATE or
\* DELETE, and the store keeps its committed content until the commit
WriteThrough(work, store) == store

\* a statement of the script has run and left the connection's work as work
Statement(work, log) ==
    /\ txn' = work
    /\ suppliers' = WriteThrough(work, Persisted).suppliers
    /\ products' = WriteThrough(work, Persisted).products
    /\ nextSupplierId' = WriteThrough(work, Persisted).nextSupplierId
    /\ catalogLog' = log
    /\ UNCHANGED <<nextProductId, schemaVars, orderVars, targetVars, canonVars, viewLog>>

\* main lines 134-145: connect, and take up an entry of MERGES
merge_begin(m) ==
    /\ txn.pc = "closed"
    /\ Statement([NoTxn EXCEPT !.pc = "ensure", !.suppliers = suppliers,
                               !.products = products, !.nextSupplierId = nextSupplierId,
                               !.good = Strip(SplitJoin(m.good)), !.todo = m.bad_variants],
                 [NoLog EXCEPT !.op = "merge_begin"])

\* main line 146: ensure_good_supplier
merge_ensure(eg) ==
    /\ txn.pc = "ensure"
    /\ eg.nextSupplierId <= MaxSupplierId + 1
    /\ Statement([txn EXCEPT !.pc = "variant", !.suppliers = eg.suppliers,
                             !.nextSupplierId = eg.nextSupplierId],
                 [NoLog EXCEPT !.op = "merge_ensure"])

\* merge_one lines 98-116 for the next variant: nothing to do, the rename, or the
\* re-link of the variant's products
merge_relink(bad_id, good_id) ==
    /\ txn.pc = "variant" /\ txn.todo # <<>>
    /\ IF bad_id = 0 \/ good_id = bad_id
       THEN Statement([txn EXCEPT !.todo = Tail(@)], [NoLog EXCEPT !.op = "merge_skip"])
       ELSE IF good_id = 0
       THEN Statement([txn EXCEPT !.todo = Tail(@), !.suppliers[bad_id] = txn.good],
                      [NoLog EXCEPT !.op = "merge_rename"])
       ELSE Statement([txn EXCEPT !.pc = "delete", !.bad_id = bad_id,
                         !.products = [i \in Ids(txn.products) |->
                             IF txn.products[i].supplier_id = bad_id
                             THEN [txn.products[i] EXCEPT !.supplier_id = good_id]
                             ELSE txn.products[i]]],
                      [NoLog EXCEPT !.op = "merge_relink"])

\* merge_one line 119: DELETE FROM suppliers WHERE id = bad_id
merge_delete(after) ==
    /\ txn.pc = "delete"
    /\ Statement([txn EXCEPT !.pc = "variant", !.todo = Tail(@), !.bad_id = 0,
                             !.suppliers = after.suppliers, !.products = after.products],
                 [NoLog EXCEPT !.op = "merge_delete"])

\* main line 155: con.commit(), and the script ends
merge_commit ==
    /\ txn.pc = "variant" /\ txn.todo = <<>>
    /\ txn' = NoTxn
    /\ suppliers' = txn.suppliers
    /\ products' = txn.products
    /\ nextSupplierId' = txn.nextSupplierId
    /\ catalogLog' = [NoLog EXCEPT !.op = "merge_commit"]
    /\ UNCHANGED <<nextProductId, schemaVars, orderVars, targetVars, canonVars, viewLog>>

\* the script dies before con.commit(): the connection's transaction is rolled back
merge_crash ==
    /\ txn.pc # "closed"
    /\ txn' = NoTxn
    /\ catalogLog' = [NoLog EXCEPT !.op = "crash_" \o txn.pc]
    /\ UNCHANGED <<suppliers, products, nextSupplierId, nextProductId, schemaVars,
                   orderVars, targetVars, canonVars, viewLog>>

fix_suppliers_begin == \E m \in MergeInputs : merge_begin(m)
fix_suppliers_ensure ==
    merge_ensure(ensure_good_supplier(txn.suppliers, txn.nextSupplierId, txn.good))
fix_suppliers_relink ==
    /\ txn.todo # <<>>
    /\ merge_relink(find_supplier_by_normalized(txn.suppliers, Head(txn.todo)),
                    find_supplier_by_normalized(txn.suppliers, txn.good))
fix_suppliers_delete ==
    merge_delete(DeleteSupplier([suppliers |-> txn.suppliers, products |-> txn.products],
                                txn.bad_id))

-----------------------------------------------------------------------------
(* Order Ledger *)

NoRep == 0      \* a representative column that is absent or NULL
Statuses == {"Pending", "Delivered", "Cancelled"}

\* str.title(): a letter after a non-letter is upper-cased, every other one lower-cased
RECURSIVE TitleFrom(_, _)
TitleFrom(s, afterLetter) ==
    IF s = "" THEN ""
    ELSE LET c == CharAt(s, 1)
         IN (IF afterLetter THEN LowerChar(c) ELSE UpperChar(c))
            \o TitleFrom(SubSeq(s, 2, Len(s)), IsLetter(c))
Title(s) == TitleFrom(s, FALSE)

RECURSIVE NatStr(_)
NatStr(n) == IF n < 10 THEN CharAt(Digits, n + 1)
             ELSE NatStr(n \div 10) \o CharAt(Digits, (n % 10) + 1)

\* f"{n:0Wd}"
ZeroPad(n, w) ==
    LET t == NatStr(n) IN IF Len(t) >= w THEN t ELSE SubSeq("0000", 1, w - Len(t)) \o t

\* date.today().strftime('%Y%m%d'): day d of the model is the d-th of January 2025
DayStamp(d) == "202501" \o ZeroPad(d, 2)

\* strftime('%Y-%m-%d'), date('now'), date(created_at)
DayIso(d) == "2025-01-" \o ZeroPad(d, 2)

\* generate_order_no(conn)
generate_order_no(ords, day) ==
    LET seq == Cardinality({i \in 1..Len(ords) : ords[i].created_at = DayIso(day)}) + 1
    IN "ORD-" \o DayStamp(day) \o "-" \o ZeroPad(seq, 4)

\* current_user_row(): the id of the session's user, 0 for None
current_user_row(us, uid) == IF uid # 0 /\ uid \in Ids(us) THEN uid ELSE 0

\* _orders_rep_col / rep_target_col of orders_new: sales_rep_id before rep_id
rep_target_col(sch) ==
    IF has_column(sch, "orders", "sales_rep_id") THEN "sales_rep_id"
    ELSE IF has_column(sch, "orders", "rep_id") THEN "rep_id" ELSE "none"

\* orders_new lines 652-656: the total override
manual_total(amount_in) ==
    IF amount_in = NULL \/ amount_in = "" THEN 0
    ELSE IF FloatOk(amount_in) THEN FloatMills(amount_in) ELSE 0

\* orders_new lines 658-665: product id -> owning supplier, for the submitted ids
supplier_by_pid(prods, raw) ==
    LET needed == {IntOf(raw[i].product_id) :
                      i \in {j \in 1..Len(raw) : IsDigits(Strip(raw[j].product_id))}}
    IN [pid \in needed \cap Ids(prods) |-> prods[pid].supplier_id]

\* orders_new lines 676-685: the fields of a line parse (no ValueError)
LineParses(l) ==
    /\ (l.product_id = "" \/ IntOk(l.product_id))
    /\ (l.qty = "" \/ FloatOk(l.qty))
    /\ (l.unit_price = "" \/ FloatOk(l.unit_price))
    /\ (l.line_amount = "" \/ FloatOk(l.line_amount))

\* orders_new lines 676-699: the line as it is stored
ParsedLine(l, by_pid) ==
    LET pid_i == IF l.product_id = "" THEN 0 ELSE IntOf(l.product_id)
        sid_0 == IF IsDigits(Strip(l.supplier_id)) THEN IntOf(l.supplier_id) ELSE 0
        sid_i == IF sid_0 <= 0 /\ pid_i \in DOMAIN by_pid THEN by_pid[pid_i] ELSE sid_0
        q_i == IF l.qty = "" THEN 0 ELSE TruncUnits(FloatMills(l.qty))
        pr_f == IF l.unit_price = "" THEN 0 ELSE FloatMills(l.unit_price)
        am_0 == IF l.line_amount = "" THEN 0 ELSE FloatMills(l.line_amount)
        am_f == IF am_0 <= 0 /\ pr_f > 0 THEN Round2(pr_f * q_i) ELSE am_0
    IN [supplier_id |-> sid_i, product_id |-> pid_i, qty |-> q_i, unit_price |-> pr_f,
        amount |-> am_f, desc |-> IF l.desc = "" THEN NULL ELSE l.desc]

KeepLineAnyQty(pl) == ~(pl.product_id <= 0)

\* orders_new line 687: a parsed line is kept
KeepLine(pl) == ~(pl.product_id <= 0 \/ pl.qty <= 0)

RECURSIVE BuildLines(_, _)
BuildLines(raw, by_pid) ==
    IF raw = <<>> THEN <<>>
    ELSE LET rest == BuildLines(Tail(raw), by_pid)
             pl == ParsedLine(Head(raw), by_pid)
         IN IF LineParses(Head(raw)) /\ KeepLine(pl) THEN <<pl>> \o rest ELSE rest

RECURSIVE SumAmounts(_)
SumAmounts(ls) == IF ls = <<>> THEN 0 ELSE Head(ls).amount + SumAmounts(Tail(ls))

\* orders_new lines 705-706
total_to_save_computed(manual, ls) == Round2(SumAmounts(ls))

total_to_save(manual, ls) == IF manual > 0 THEN manual ELSE Round2(SumAmounts(ls))

UserByName(us, S) == IF S = {} THEN 0 ELSE FirstId(S)

\* orders_new lines 720-739: the representative stored with the order, 0 when
\* none is resolved
rep_val(us, uid, sales_rep_text) ==
    LET u == current_user_row(us, uid)
        named == UserByName(us, {i \in Ids(us) :
                    \/ Lower(us[i].username) = Lower(sales_rep_text)
                    \/ Lower(Coalesce2(us[i].full_name, "")) = Lower(sales_rep_text)})
        staff == UserByName(us, {i \in Ids(us) : us[i].username = "staff"})
        admin == UserByName(us, {i \in Ids(us) : us[i].username = "admin"})
    IN IF u # 0 THEN u
       ELSE IF sales_rep_text # "" /\ named # 0 THEN named
       ELSE IF staff # 0 THEN staff
       ELSE admin

Idle == [state |-> "idle", form |-> <<>>, row |-> <<>>]
NoOrderLog == [op |-> "none", by |-> 0, id |-> 0, from |-> "", to |-> "", form |-> <<>>]

\* The lines an order form may carry (text, as the browser posts them)
RawLine(pid, qty, price, amt) ==
    [supplier_id |-> "", product_id |-> pid, qty |-> qty, unit_price |-> price,
     line_amount |-> amt, desc |-> ""]

LineA == RawLine("1", "2", "100", "")
LineB == RawLine("2", "1", "50", "")

Form(uid, sales_rep, amount, delivery_date, lines) ==
    [uid |-> uid, sales_rep |-> sales_rep, amount |-> amount,
     delivery_date |-> delivery_date, lines |-> lines]

OrderForms ==
    { Form(1, "Staff", "abc", " 2025-01-09 ", <<LineA>>),
      Form(2, "", "300", "", <<LineA, LineB>>),
      Form(2, "", "", "", <<LineA, LineB>>),
      Form(2, "", "", "", <<RawLine("9", "1", "0.125", ""), RawLine("2", "2.5", "", "0.125"),
                            RawLine("1", "-1", "7", "")>>),
      Form(2, "", "", "", <<RawLine("1", "0", "100", ""), RawLine("abc", "1", "5", ""),
                            RawLine("", "1", "5", "")>>),
      Form(0, "", "", "", <<LineA>>) }

OrderRowLastLine(f, lines, order_no, rep) ==
    [order_no |-> order_no,
     total |-> total_to_save(manual_total(f.amount), lines),
     rep |-> rep,
     supplier_id |-> lines[Len(lines)].supplier_id,
     product_id |-> lines[Len(lines)].product_id,
     quantity |-> lines[Len(lines)].qty,
     unit_price |-> lines[Len(lines)].unit_price,
     status |-> "Pending",
     delivery_date |-> IF Strip(f.delivery_date) = "" THEN NULL ELSE Strip(f.delivery_date),
     line_items |-> lines,
     sales_rep_name |-> f.sales_rep]

\* orders_new lines 708-753: the row to insert, but for its created_at
OrderRow(f, lines, order_no, rep) ==
    [order_no |-> order_no,
     total |-> total_to_save(manual_total(f.amount), lines),
     rep |-> rep,
     supplier_id |-> Head(lines).supplier_id,
     product_id |-> Head(lines).product_id,
     quantity |-> Head(lines).qty,
     unit_price |-> Head(lines).unit_price,
     status |-> "Pending",
     delivery_date |-> IF Strip(f.delivery_date) = "" THEN NULL ELSE Strip(f.delivery_date),
     line_items |-> lines,
     sales_rep_name |-> f.sales_rep]

\* orders_new up to the INSERT: "rejected" (login_required, "Add at least one item.",
\* "Please log in or choose a valid Sales Rep.") or the row, numbered
PreparedOrder(sch, us, prods, ords, day, f) ==
    LET lines == BuildLines(f.lines, supplier_by_pid(prods, f.lines))
        col == rep_target_col(sch)
        rep == rep_val(us, f.uid, f.sales_rep)
    IN IF current_user_row(us, f.uid) = 0 \/ lines = <<>> \/ (col # "none" /\ rep = 0)
       THEN [state |-> "rejected", form |-> f, row |-> <<>>]
       ELSE [state |-> "numbered", form |-> f,
             row |-> OrderRow(f, lines, generate_order_no(ords, day),
                              IF col = "none" THEN NoRep ELSE rep)]

HoldPrepared(p, r) ==
    /\ req[p].state = "idle"
    /\ req' = IF r.state = "rejected" THEN req ELSE [req EXCEPT ![p] = r]
    /\ orderLog' = [NoOrderLog EXCEPT !.op = r.state, !.by = r.form.uid, !.form = r.form]
    /\ UNCHANGED <<orders, today, catalogVars, schemaVars, targetVars, canonVars, viewLog, txn>>

\* orders_new (POST) up to and including generate_order_no and the resolution of
\* the representative: everything before the INSERT
orders_new_prepare(p, f) ==
    HoldPrepared(p, PreparedOrder(schema, users, products, orders, today, f))

\* idx_orders_order_no: the UNIQUE index admits the row
UniqueOrderNoAny(sch, ords, order_no) == TRUE

UniqueOrderNoOk(sch, ords, order_no) ==
    "idx_orders_order_no" \in sch.indexes
        => \A i \in 1..Len(ords) : ords[i].order_no # order_no

\* orders_new lines 741-766: the INSERT, stamped with datetime.now(), and the commit;
\* on sqlite3.IntegrityError the request ends with nothing stored
InsertOrder(r) ==
    /\ Len(orders) < MaxOrders
    /\ IF r.state = "rejected"
       THEN /\ orders' = orders
            /\ orderLog' = [NoOrderLog EXCEPT !.op = "rejected", !.by = r.form.uid,
                                              !.form = r.form]
       ELSE IF UniqueOrderNoOk(schema, orders, r.row.order_no)
       THEN /\ orders' = Append(orders, [created_at |-> DayIso(today)] @@ r.row)
            /\ orderLog' = [NoOrderLog EXCEPT !.op = "created", !.by = r.form.uid,
                                              !.id = Len(orders) + 1, !.form = r.form]
       ELSE /\ orders' = orders
            /\ orderLog' = [NoOrderLog EXCEPT !.op = "integrity_error", !.by = r.form.uid,
                                              !.form = r.form]
    /\ UNCHANGED <<today, catalogVars, schemaVars, targetVars, canonVars, viewLog, txn>>

orders_new_insert(p) ==
    /\ req[p].state = "numbered"
    /\ req' = [req EXCEPT ![p] = Idle]
    /\ InsertOrder(req[p])

\* orders_new (POST) served without another request in between
orders_new(f) ==
    /\ InsertOrder(PreparedOrder(schema, users, products, orders, today, f))
    /\ UNCHANGED req

\* orders_update_status lines 945-948: the requested status is one of the three
ValidStatusAny(new_status) == TRUE

ValidStatus(new_status) == new_status \in Statuses

StatusInputs == {"Delivered", "cancelled", " PENDING ", "Shipped", ""}

DeliveryDateOverwritten(new_status, stored, day) ==
    IF new_status = "Delivered" THEN DayIso(day) ELSE stored

\* orders_update_status lines 950-957: delivery_date = COALESCE(delivery_date,
\* date('now')) in the UPDATE for Delivered, and no delivery_date in the other
DeliveryDate(new_status, stored, day) ==
    IF new_status = "Delivered" THEN Coalesce2(stored, DayIso(day)) ELSE stored

\* orders_update_status (admin_required)
SetStatus(uid, order_id, new_status) ==
    /\ current_user_row(users, uid) # 0 /\ users[uid].role = "admin"
    /\ orderLog' = [NoOrderLog EXCEPT
                       !.op = IF ValidStatus(new_status) THEN "status" ELSE "invalid_status",
                       !.by = uid, !.id = order_id,
                       !.from = IF order_id \in 1..Len(orders)
                                THEN orders[order_id].status ELSE "",
                       !.to = new_status]
    /\ orders' = IF ValidStatus(new_status) /\ order_id \in 1..Len(orders)
                 THEN [orders EXCEPT
                         ![order_id].status = new_status,
                         ![order_id].delivery_date = DeliveryDate(new_status, @, today)]
                 ELSE orders
    /\ UNCHANGED <<today, req, catalogVars, schemaVars, targetVars, canonVars, viewLog, txn>>

orders_update_status(uid, order_id, status_raw) ==
    SetStatus(uid, order_id, Title(Strip(status_raw)))

\* midnight passes
NextDay ==
    /\ today < MaxDay
    /\ today' = today + 1
    /\ UNCHANGED <<orders, req, orderLog, catalogVars, schemaVars, targetVars, canonVars, viewLog, txn>>

-----------------------------------------------------------------------------
(* Order sheet and order history: the line items a stored order is shown with *)

\* a numeric column that is NULL; the readers apply "or 0" to every one they read,
\* and test the product id for truth only
NoNumber == 0

NoViewLog == [op |-> "none", id |-> 0, items |-> <<>>, entries |-> <<>>]

InitViewLog == viewLog = NoViewLog

\* a line_items text as json.dumps wrote it
StoredJson ==
    "[{\"supplier_id\": 1, \"product_id\": 1, \"qty\": 2, \"unit_price\": 100.0, \"amount\": 200.0, \"desc\": null}]"

\* what json.loads returns for the texts it reads without raising
JsonValues ==
    [t \in {"[]", StoredJson} |->
        IF t = "[]" THEN <<>>
        ELSE <<[supplier_id |-> 1, product_id |-> 1, qty |-> 2, unit_price |-> 100000,
                amount |-> 200000, desc |-> NULL]>>]

\* the texts the line_items column may hold
LineItemTexts == {NULL, "", "{oops"} \cup DOMAIN JsonValues

\* try: json.loads(r["line_items"] or "[]") except Exception: []
json_loads_items(text) ==
    IF text = NULL \/ text = "" THEN JsonValues["[]"]
    ELSE IF text \in DOMAIN JsonValues THEN JsonValues[text]
    ELSE <<>>

\* orders_sheet lines 825-827, orders_history lines 880-884: the label of a product
product_label(p) ==
    Strip(Coalesce3(p.product_name, p.name, "")
          \o (IF Coalesce2(p.unit_pack_info, "") # ""
              THEN " (" \o Coalesce2(p.unit_pack_info, "") \o ")" ELSE ""))

\* orders_sheet lines 810-816: the line made of the order's own columns
sheet_fallback(o) ==
    <<[product_id |-> o.product_id, qty |-> o.quantity, unit_price |-> o.unit_price,
       amount |-> o.total, desc |-> NULL]>>

\* orders_sheet lines 819-833: a line as the sheet shows it
sheet_label(prods, pid) ==
    IF pid # NoNumber /\ pid \in Ids(prods) /\ product_label(prods[pid]) # ""
    THEN product_label(prods[pid])
    ELSE IF pid # NoNumber THEN "Product #" \o NatStr(pid) ELSE "Product"

sheet_item(prods, it) ==
    [product_id |-> it.product_id, label |-> sheet_label(prods, it.product_id),
     qty |-> it.qty, unit_price |-> it.unit_price,
     amount |-> IF it.amount # 0 THEN it.amount ELSE it.unit_price * it.qty]

\* orders_sheet lines 805-833, on the loaded line items
sheet_items(prods, o, items) ==
    [k \in 1..Len(IF items = <<>> THEN sheet_fallback(o) ELSE items) |->
        sheet_item(prods, (IF items = <<>> THEN sheet_fallback(o) ELSE items)[k])]

\* orders_history lines 899-909: the line made of the order's own columns
history_fallback(o) ==
    <<[product_id |-> NoNumber, qty |-> o.quantity, unit_price |-> o.unit_price,
       amount |-> IF o.total # 0 THEN o.total ELSE o.quantity * o.unit_price,
       desc |-> NULL]>>

\* orders_history lines 914-915: prod_map.get(pid, {}).get("label") if pid else
\* (it.get("desc") or "Product")
history_label(prods, it) ==
    IF it.product_id # NoNumber
    THEN IF it.product_id \in Ids(prods) THEN product_label(prods[it.product_id]) ELSE NULL
    ELSE IF it.desc = NULL \/ it.desc = "" THEN "Product" ELSE it.desc

\* orders_history lines 913-919: a line as the history shows it
history_item(prods, it) ==
    [label |-> history_label(prods, it), qty |-> it.qty, unit_price |-> it.unit_price,
     amount |-> IF it.amount # 0 THEN it.amount ELSE it.qty * it.unit_price]

history_items(prods, o, items) ==
    [k \in 1..Len(IF items = <<>> THEN history_fallback(o) ELSE items) |->
        history_item(prods, (IF items = <<>> THEN history_fallback(o) ELSE items)[k])]

\* orders_history lines 911-919 and 934: total = round(sum of the lines' amounts, 2)
history_total(o, shown) == Round2(SumAmounts(shown))

\* orders_history lines 893-935: the entry of one order
history_entry(prods, ords, id, items) ==
    [id |-> id, items |-> history_items(prods, ords[id], items),
     total |-> history_total(ords[id], history_items(prods, ords[id], items))]

\* orders_sheet (login_required) for a stored order, whose line_items column loads
\* as items; abort(404) for any other id
orders_sheet(uid, order_id, items) ==
    /\ current_user_row(users, uid) # 0
    /\ viewLog' = IF order_id \in 1..Len(orders)
                  THEN [viewLog EXCEPT !.op = "sheet", !.id = order_id,
                                       !.items = sheet_items(products, orders[order_id], items)]
                  ELSE [viewLog EXCEPT !.op = "not_found", !.id = 0, !.items = <<>>]
    /\ UNCHANGED <<catalogVars, schemaVars, orderVars, targetVars, canonVars, txn>>

\* orders_history (login_required) without filters: every order, newest first
\* (ORDER BY o.id DESC); loaded[i] is what the line_items column of order i loads as
orders_history(uid, loaded) ==
    /\ current_user_row(users, uid) # 0
    /\ viewLog' = [viewLog EXCEPT !.op = "history",
                      !.entries = [k \in 1..Len(orders) |->
                                     history_entry(products, orders, Len(orders) + 1 - k,
                                                   loaded[Len(orders) + 1 - k])]]
    /\ UNCHANGED <<catalogVars, schemaVars, orderVars, targetVars, canonVars, txn>>

-----------------------------------------------------------------------------
(* Targets and actuals: the four save handlers and the dashboard's progress *)

\* a form as posted: owner is the rep_id or supplier_id field, value the
\* target_value or mtd_value field
TargetForm(owner, month, year, value) ==
    [owner |-> owner, month |-> month, year |-> year, value |-> value]

TargetForms ==
    { TargetForm("1", "1", "2025", "1000"),
      TargetForm(" 1 ", "01", "2025", "250"),
      TargetForm("2", "1", "2025", "-50"),
      TargetForm("0", "1", "2025", "1000"),
      TargetForm("1", "13", "2025", "1000"),
      TargetForm("1", "", "2025", "1000"),
      TargetForm("1", "1", "1999", "1000"),
      TargetForm("x", "1", "2025", "1000") }

\* request.form.get(field) or 0
OrZero(s) == IF s = "" THEN "0" ELSE s

\* the try block: int() of the three key fields, float() of the value
FormParses(f) ==
    /\ IntOk(OrZero(f.owner)) /\ IntOk(OrZero(f.month)) /\ IntOk(OrZero(f.year))
    /\ FloatOk(OrZero(f.value))

ParsedForm(f) ==
    [owner |-> IntOf(OrZero(f.owner)), month |-> IntOf(OrZero(f.month)),
     year |-> IntOf(OrZero(f.year)), value |-> FloatMills(OrZero(f.value))]

\* the forms whose fields all parse, and what they parse to
FormsOk == {f \in TargetForms : FormParses(f)}
ParsedForms == [f \in FormsOk |-> ParsedForm(f)]

KeyValidAny(r) == TRUE

\* rep_id > 0 and 1 <= month <= 12 and year >= 2000
KeyValid(r) == r.owner > 0 /\ 1 <= r.month /\ r.month <= 12 /\ r.year >= 2000

SameKey(a, b) == a.owner = b.owner /\ a.month = b.month /\ a.year = b.year

Conflicts(rows, r) == {i \in 1..Len(rows) : SameKey(rows[i], r)}

UpsertAppend(rows, r) == Append(rows, r)

\* INSERT ... ON CONFLICT(owner, month, year) DO UPDATE SET value = excluded.value
Upsert(rows, r) ==
    IF Conflicts(rows, r) = {} THEN Append(rows, r)
    ELSE [i \in 1..Len(rows) |-> IF SameKey(rows[i], r) THEN [rows[i] EXCEPT !.value = r.value]
                                  ELSE rows[i]]

NoView == [supplier_target_total |-> 0, s_mtd |-> 0, supplier_progress |-> <<0, 1>>,
           supplier_remaining |-> 0, rep_target_total |-> 0, r_mtd |-> 0,
           rep_progress |-> <<0, 1>>, rep_remaining |-> 0]

NoTargetLog == [op |-> "none", form |-> TargetForm("", "", "", ""), outcome |-> "",
                view |-> NoView]

\* one save handler on the table rows, whose unique index is index: what it
\* leaves in the table and what it reports
SaveOutcome(sch, index, rows, f) ==
    IF f \notin FormsOk THEN "invalid"
    ELSE IF ~KeyValid(ParsedForms[f]) THEN "rejected"
    ELSE IF index \notin sch.indexes THEN "raised"
    ELSE IF Conflicts(rows, ParsedForms[f]) = {} THEN "inserted"
    ELSE "replaced"

SaveRows(sch, index, rows, f) ==
    IF SaveOutcome(sch, index, rows, f) \in {"inserted", "replaced"}
    THEN Upsert(rows, ParsedForms[f]) ELSE rows

IsAdmin(uid) == current_user_row(users, uid) # 0 /\ users[uid].role = "admin"

\* targets_rep_add (admin_required)
targets_rep_add(uid, f) ==
    /\ IsAdmin(uid)
    /\ rep_targets' = SaveRows(schema, "idx_rep_targets_unique", rep_targets, f)
    /\ targetLog' = [NoTargetLog EXCEPT !.op = "targets_rep_add", !.form = f,
                        !.outcome = SaveOutcome(schema, "idx_rep_targets_unique",
                                                rep_targets, f)]
    /\ UNCHANGED <<supplier_targets, supplier_actuals, rep_actuals,
                   catalogVars, schemaVars, orderVars, canonVars, viewLog, txn>>

\* targets_supplier_add (admin_required)
targets_supplier_add(uid, f) ==
    /\ IsAdmin(uid)
    /\ supplier_targets' = SaveRows(schema, "idx_supplier_targets_unique",
                                    supplier_targets, f)
    /\ targetLog' = [NoTargetLog EXCEPT !.op = "targets_supplier_add", !.form = f,
                        !.outcome = SaveOutcome(schema, "idx_supplier_targets_unique",
                                                supplier_targets, f)]
    /\ UNCHANGED <<rep_targets, supplier_actuals, rep_actuals,
                   catalogVars, schemaVars, orderVars, canonVars, viewLog, txn>>

\* targets_supplier_actual (admin_required)
targets_supplier_actual(uid, f) ==
    /\ IsAdmin(uid)
    /\ supplier_actuals' = SaveRows(schema, "sqlite_autoindex_supplier_actuals_1",
                                    supplier_actuals, f)
    /\ targetLog' = [NoTargetLog EXCEPT !.op = "targets_supplier_actual", !.form = f,
                        !.outcome = SaveOutcome(schema, "sqlite_autoindex_supplier_actuals_1",
                                                supplier_actuals, f)]
    /\ UNCHANGED <<rep_targets, supplier_targets, rep_actuals,
                   catalogVars, schemaVars, orderVars, canonVars, viewLog, txn>>

\* targets_rep_actual (admin_required)
targets_rep_actual(uid, f) ==
    /\ IsAdmin(uid)
    /\ rep_actuals' = SaveRows(schema, "sqlite_autoindex_rep_actuals_1", rep_actuals, f)
    /\ targetLog' = [NoTargetLog EXCEPT !.op = "targets_rep_actual", !.form = f,
                        !.outcome = SaveOutcome(schema, "sqlite_autoindex_rep_actuals_1",
                                                rep_actuals, f)]
    /\ UNCHANGED <<rep_targets, supplier_targets, supplier_actuals,
                   catalogVars, schemaVars, orderVars, canonVars, viewLog, txn>>

\* date.today().month and .year: the days of the model are in January 2025
MonthOf(d) == 1
YearOf(d) == 2025

RECURSIVE SumValues(_, _, _)
\* SELECT COALESCE(SUM(value), 0) FROM table WHERE month = ? AND year = ?
SumValues(rows, m, y) ==
    IF rows = <<>> THEN 0
    ELSE (IF Head(rows).month = m /\ Head(rows).year = y THEN Head(rows).value ELSE 0)
         + SumValues(Tail(rows), m, y)

Max(a, b) == IF a >= b THEN a ELSE b

\* a quotient kept as <<numerator, denominator>>, denominator positive
Ratio(a, b) == <<a, b>>
RatioIs(q, n) == q[1] = n * q[2]

\* (float(mtd) / float(target_total) * 100.0) if target_total > 0 else 0.0
progress(mtd, target_total) ==
    IF target_total > 0 THEN Ratio(mtd * 100, target_total) ELSE Ratio(0, 1)

remaining_unclamped(target_total, mtd) == target_total - mtd

\* max(target_total - mtd, 0.0)
remaining(target_total, mtd) == Max(target_total - mtd, 0)

\* what dashboard computes for the month of today, lines 333-358
DashboardView(st, sa, rt, ra, m, y) ==
    [supplier_target_total |-> st, s_mtd |-> sa,
     supplier_progress |-> progress(sa, st), supplier_remaining |-> remaining(st, sa),
     rep_target_total |-> rt, r_mtd |-> ra,
     rep_progress |-> progress(ra, rt), rep_remaining |-> remaining(rt, ra)]

\* dashboard (login_required): reads the four tables, writes nothing
dashboard(uid) ==
    /\ current_user_row(users, uid) # 0
    /\ targetLog' = [NoTargetLog EXCEPT !.op = "dashboard", !.outcome = "rendered",
                        !.view = DashboardView(
                            SumValues(supplier_targets, MonthOf(today), YearOf(today)),
                            SumValues(supplier_actuals, MonthOf(today), YearOf(today)),
                            SumValues(rep_targets, MonthOf(today), YearOf(today)),
                            SumValues(rep_actuals, MonthOf(today), YearOf(today)),
                            MonthOf(today), YearOf(today))]
    /\ UNCHANGED <<rep_targets, supplier_targets, supplier_actuals, rep_actuals,
                   catalogVars, schemaVars, orderVars, canonVars, viewLog, txn>>

-----------------------------------------------------------------------------
(* Stores the application may be started against: the table shapes that the  *)
(* scripts of the repository create, or that ensure_schema provides for      *)

EmptySchema == [tables |-> {}, columns |-> {}, indexes |-> {}]

\* users: absent, as every script creates it, or a predecessor without full_name
\* (the shape data/admin_update.py repairs)
UsersShape(sch, shape) ==
    IF shape = "absent" THEN sch
    ELSE CreateTable(sch, "users",
            {"id", "username", "password_hash", "role", "created_at"}
                \cup (IF shape = "full" THEN {"full_name"} ELSE {}), {})

\* suppliers and products: absent, or as import_products.py ensure_tables creates them
CatalogShape(sch, shape) ==
    IF shape = "absent" THEN sch
    ELSE CreateTable(CreateTable(sch, "suppliers", {"id", "name"}, {}),
                     "products", {"id", "supplier_id", "name", "unit_pack_info"},
                     {"sqlite_autoindex_products_1"})

\* orders: absent, the baseline shape, or a predecessor carrying a representative column
OrdersShape(sch, shape) ==
    IF shape = "absent" THEN sch
    ELSE CreateTable(sch, "orders",
            {"id", "created_at", "total"}
                \cup (IF shape \in {"rep_id", "sales_rep_id"} THEN {shape} ELSE {}), {})

UserRow(uname) ==
    [username |-> uname, role |-> IF uname = "admin" THEN "admin" ELSE "rep",
     full_name |-> NULL]

UserRows(names) == [i \in 1..Len(names) |-> UserRow(names[i])]

InitialUserLists ==
    {<<>>, <<"admin">>, <<"rep1">>, <<"admin", "staff">>, <<"rep1", "staff">>}

\* rows written by import_products.py upsert_product: no product_name column yet
InitSchemaVars(uShape, uNames, cShape, oShape) ==
    /\ schema = OrdersShape(CatalogShape(UsersShape(EmptySchema, uShape), cShape), oShape)
    /\ users = UserRows(uNames)
    /\ nextUserId = Len(uNames) + 1
    /\ schemaLog = [last |-> "none", twice |-> FALSE, raised |-> FALSE,
                    before |-> <<>>, after |-> <<>>]

InitCatalogVars(cShape) ==
    /\ suppliers = IF cShape = "absent" THEN <<>> ELSE (1 :> "Haco Ind")
    /\ products = IF cShape = "absent" THEN <<>> ELSE LegacyProducts
    /\ nextSupplierId = IF cShape = "absent" THEN 1 ELSE 2
    /\ nextProductId = IF cShape = "absent" THEN 1 ELSE 2
    /\ catalogLog = NoLog

InitTargetVars ==
    /\ rep_targets = <<>>
    /\ supplier_targets = <<>>
    /\ supplier_actuals = <<>>
    /\ rep_actuals = <<>>
    /\ targetLog = NoTargetLog

InitOrderVars ==
    /\ orders = <<>>
    /\ today = 1
    /\ req = [p \in Procs |-> Idle]
    /\ orderLog = NoOrderLog
    /\ InitTargetVars
    /\ InitCanonVars
    /\ InitTxn
    /\ InitViewLog

-----------------------------------------------------------------------------
(* Specification of the schema engine and the account scripts *)

InitSchema ==
    /\ \E uShape \in {"absent", "full", "legacy"}, uNames \in InitialUserLists,
          cShape \in {"absent", "legacy"},
          oShape \in {"absent", "baseline", "rep_id", "sales_rep_id"} :
          /\ uShape = "absent" => uNames = <<>>
          /\ InitSchemaVars(uShape, uNames, cShape, oShape)
          /\ InitCatalogVars(cShape)
    /\ InitOrderVars

\* reconcile(store): one call of ensure_schema
SetStore(after) ==
    /\ after.nextUserId <= MaxUserId + 1
    /\ schema' = after.schema
    /\ products' = after.products
    /\ users' = after.users
    /\ nextUserId' = after.nextUserId

Reconcile ==
    /\ SetStore(ensure_schema(Store))
    /\ schemaLog' = [last |-> "reconcile", twice |-> schemaLog.last = "reconcile",
                     raised |-> SeedFails(ReconcileCatalog(Store)), before |-> Store,
                     after |-> Store']
    /\ UNCHANGED <<suppliers, nextSupplierId, nextProductId, catalogLog, orderVars, targetVars, canonVars, viewLog, txn>>

\* set_users.py upsert_user: INSERT ... ON CONFLICT(username) DO UPDATE
upsert_user(st, uname, role, full_name) ==
    IF HasUser(st.users, uname)
    THEN LET i == CHOOSE j \in Ids(st.users) : st.users[j].username = uname
         IN [st EXCEPT !.users[i] = [username |-> uname, role |-> role,
                                     full_name |-> Coalesce2(full_name, st.users[i].full_name)]]
    ELSE AddUser(st, uname, role, full_name)

\* set_users.py main; on a users table without full_name the INSERT raises and
\* nothing is committed
SetUsers(st) ==
    LET s0 == [st EXCEPT !.schema = CreateTable(@, "users",
                  {"id", "username", "password_hash", "role", "created_at", "full_name"}, {})]
    IN upsert_user(upsert_user(s0, "admin", "admin", "Admin"), "staff", "rep", "Everyone")

set_users_main ==
    /\ ~table_exists(schema, "users") \/ has_column(schema, "users", "full_name")
    /\ SetStore(SetUsers(Store))
    /\ schemaLog' = [schemaLog EXCEPT !.last = "set_users", !.twice = FALSE]
    /\ UNCHANGED <<suppliers, nextSupplierId, nextProductId, catalogLog, orderVars, targetVars, canonVars, viewLog, txn>>

\* reset_reps.py: DELETE FROM users WHERE role='rep', then the REPS list (its first
\* MaxReps entries) inserted afresh
RepNames == <<"rep1", "rep2", "rep3", "rep4", "rep5", "rep6", "rep7">>
RepFullNames == <<"Ali Mzamssa", "Hassan Mzamssa", "Eric Mzamssa", "John Mzamssa",
                  "Moses Mzamssa", "Abdulkadir Mzamssa", "Frontdesk Mzamssa">>

RECURSIVE AddReps(_, _)
AddReps(st, k) ==
    IF k = 0 THEN st
    ELSE AddUser(AddReps(st, k - 1), RepNames[k], "rep", RepFullNames[k])

ResetReps(st) ==
    AddReps([st EXCEPT !.users = Drop(@, {i \in Ids(st.users) : st.users[i].role = "rep"})],
            MaxReps)

reset_reps ==
    /\ has_column(schema, "users", "full_name")
    /\ SetStore(ResetReps(Store))
    /\ schemaLog' = [schemaLog EXCEPT !.last = "reset_reps", !.twice = FALSE]
    /\ UNCHANGED <<suppliers, nextSupplierId, nextProductId, catalogLog, orderVars, targetVars, canonVars, viewLog, txn>>

NextSchema == Reconcile \/ set_users_main \/ reset_reps

SpecSchema == InitSchema /\ [][NextSchema]_vars

-----------------------------------------------------------------------------
(* Specification of the order ledger: request handlers creating orders and    *)
(* an administrator updating their status, on a store ensure_schema has       *)
(* reconciled (login, which every handler requires, calls it)                 *)

OrderCatalog ==
    (1 :> [supplier_id |-> 1, product_name |-> "Salt 1x48", unit_pack_info |-> NULL,
           name |-> "Salt 1x48"])
    @@ (2 :> [supplier_id |-> 1, product_name |-> "Rice 5kg", unit_pack_info |-> NULL,
              name |-> "Rice 5kg"])

InitOrders ==
    /\ \E oShape \in {"absent", "baseline", "rep_id", "sales_rep_id"} :
          LET st == ensure_schema([schema |-> OrdersShape(EmptySchema, oShape),
                                   products |-> OrderCatalog, users |-> <<>>,
                                   nextUserId |-> 1])
          IN /\ schema = st.schema
             /\ users = st.users
             /\ nextUserId = st.nextUserId
             /\ products = st.products
    /\ schemaLog = [last |-> "none", twice |-> FALSE, raised |-> FALSE,
                    before |-> <<>>, after |-> <<>>]
    /\ suppliers = (1 :> "Haco Ind")
    /\ nextSupplierId = 2
    /\ nextProductId = 3
    /\ catalogLog = NoLog
    /\ InitOrderVars

create_order_prepare == \E p \in Procs, f \in OrderForms : orders_new_prepare(p, f)
create_order_insert == \E p \in Procs : orders_new_insert(p)

NextOrders == create_order_prepare \/ create_order_insert \/ NextDay

SpecOrders == InitOrders /\ [][NextOrders]_vars

-----------------------------------------------------------------------------
(* Specification of orders created one at a time: a request is taken up only  *)
(* when no other is in flight; the clock runs on while it is served           *)

orders_new_alone(p, f) ==
    /\ \A q \in Procs : req[q].state = "idle"
    /\ orders_new_prepare(p, f)

create_order_alone == \E p \in Procs, f \in OrderForms : orders_new_alone(p, f)

NextSequential == create_order_alone \/ create_order_insert \/ NextDay

SpecSequential == InitOrders /\ [][NextSequential]_vars

-----------------------------------------------------------------------------
(* Specification of the life of stored orders: requests served one at a time  *)

create_order == \E f \in OrderForms : orders_new(f)
update_status ==
    \E uid \in Ids(users), id \in 1..(Len(orders) + 1), raw \in StatusInputs :
        orders_update_status(uid, id, raw)

NextStatus == create_order \/ update_status \/ NextDay

SpecStatus == InitOrders /\ [][NextStatus]_vars

-----------------------------------------------------------------------------
(* Specification of the catalog: imports and supplier merges, one at a time    *)

InitCatalog ==
    /\ \E cShape \in {"absent", "legacy"} :
          LET st == ensure_schema([schema |-> CatalogShape(EmptySchema, cShape),
                                   products |-> IF cShape = "absent" THEN <<>>
                                                ELSE LegacyProducts,
                                   users |-> <<>>, nextUserId |-> 1])
          IN /\ schema = st.schema
             /\ users = st.users
             /\ nextUserId = st.nextUserId
             /\ products = st.products
             /\ suppliers = IF cShape = "absent" THEN <<>> ELSE (1 :> "Haco Ind")
             /\ nextSupplierId = IF cShape = "absent" THEN 1 ELSE 2
             /\ nextProductId = IF cShape = "absent" THEN 1 ELSE 2
    /\ schemaLog = [last |-> "none", twice |-> FALSE, raised |-> FALSE,
                    before |-> <<>>, after |-> <<>>]
    /\ catalogLog = NoLog
    /\ InitOrderVars

NextCatalog == products_upload \/ seed_products_main \/ fix_suppliers_main

SpecCatalog == InitCatalog /\ [][NextCatalog]_vars


-----------------------------------------------------------------------------
(* Specification of imports alone, one at a time                              *)

NextImports == products_upload \/ seed_products_main

SpecImports == InitCatalog /\ [][NextImports]_vars

-----------------------------------------------------------------------------
(* Specification of targets and actuals: an administrator saving targets and  *)
(* month-to-date values, and the dashboard read in between, on a reconciled   *)
(* store                                                                      *)

InitTargets ==
    /\ LET st == ensure_schema([schema |-> EmptySchema, products |-> <<>>,
                                users |-> <<>>, nextUserId |-> 1])
       IN /\ schema = st.schema
          /\ users = st.users
          /\ nextUserId = st.nextUserId
          /\ products = st.products
    /\ schemaLog = [last |-> "none", twice |-> FALSE, raised |-> FALSE,
                    before |-> <<>>, after |-> <<>>]
    /\ suppliers = <<>>
    /\ nextSupplierId = 1
    /\ nextProductId = 1
    /\ catalogLog = NoLog
    /\ InitOrderVars

save_rep_target == \E uid \in Ids(users), f \in TargetForms : targets_rep_add(uid, f)
save_supplier_target == \E uid \in Ids(users), f \in TargetForms : targets_supplier_add(uid, f)
save_supplier_actual ==
    \E uid \in Ids(users), f \in TargetForms : targets_supplier_actual(uid, f)
save_rep_actual == \E uid \in Ids(users), f \in TargetForms : targets_rep_actual(uid, f)
read_dashboard == \E uid \in Ids(users) : dashboard(uid)

NextTargets ==
    \/ save_rep_target
    \/ save_supplier_target
    \/ save_supplier_actual
    \/ save_rep_actual
    \/ read_dashboard

SpecTargets == InitTargets /\ [][NextTargets]_vars

-----------------------------------------------------------------------------
(* Specification of canonicalization: _canon applied to a text, then to what  *)
(* it returned                                                                *)

InitCanon ==
    /\ canonIn \in CanonInputs
    /\ canonOut = <<>>
    /\ schema = EmptySchema
    /\ users = <<>>
    /\ nextUserId = 1
    /\ schemaLog = [last |-> "none", twice |-> FALSE, raised |-> FALSE,
                    before |-> <<>>, after |-> <<>>]
    /\ suppliers = <<>>
    /\ products = <<>>
    /\ nextSupplierId = 1
    /\ nextProductId = 1
    /\ catalogLog = NoLog
    /\ orders = <<>>
    /\ today = 1
    /\ req = [p \in Procs |-> Idle]
    /\ orderLog = NoOrderLog
    /\ InitTargetVars
    /\ InitTxn
    /\ InitViewLog

NextCanon == canonicalize

SpecCanon == InitCanon /\ [][NextCanon]_vars

-----------------------------------------------------------------------------
(* Specification of the supplier merge, statement by statement: the script may *)
(* die between any two of its statements                                       *)

\* supplier names as imports store them: _upsert_supplier tells names apart that
\* differ in inner spacing
MergeNames == {"Haco Ind", "Haco  Ind", "Haco Industries Ltd", "Haco  Industries Ltd",
               "Kapa Oil"}

\* the supplier tables the script may find: one or two rows, names distinct
MergeSuppliers ==
    {<<a>> : a \in MergeNames}
    \cup {p \in MergeNames \X MergeNames : p[1] # p[2]}

MergeProduct(sid, nm) ==
    [supplier_id |-> sid, product_name |-> nm, unit_pack_info |-> NULL, name |-> nm]

\* the products tables beside a suppliers table: none, or two products, each of a
\* supplier of the table
MergeProducts(supps) ==
    {<<>>} \cup {<<MergeProduct(a, "Salt 1x48"), MergeProduct(b, "Rice 5kg")>> :
                    a \in Ids(supps), b \in Ids(supps)}

InitMerge ==
    /\ LET st == ensure_schema([schema |-> EmptySchema, products |-> <<>>,
                                users |-> <<>>, nextUserId |-> 1])
       IN /\ schema = st.schema
          /\ users = st.users
          /\ nextUserId = st.nextUserId
    /\ schemaLog = [last |-> "none", twice |-> FALSE, raised |-> FALSE,
                    before |-> <<>>, after |-> <<>>]
    /\ suppliers \in MergeSuppliers
    /\ products \in MergeProducts(suppliers)
    /\ nextSupplierId = Len(suppliers) + 1
    /\ nextProductId = Len(products) + 1
    /\ catalogLog = NoLog
    /\ InitOrderVars

NextMerge ==
    \/ fix_suppliers_begin
    \/ fix_suppliers_ensure
    \/ fix_suppliers_relink
    \/ fix_suppliers_delete
    \/ merge_commit
    \/ merge_crash

SpecMerge == InitMerge /\ [][NextMerge]_vars

-----------------------------------------------------------------------------
(* Specification of a merge beside the records that name suppliers: orders and *)
(* supplier targets and actuals are stored while the merge script runs         *)

RelinkOrderForms == {Form(2, "", "", "", <<LineA, LineB>>)}

RelinkTargetForms == {TargetForm("1", "1", "2025", "1000")}

order_for_supplier == \E f \in RelinkOrderForms : orders_new(f)
target_for_supplier ==
    \E uid \in Ids(users), f \in RelinkTargetForms : targets_supplier_add(uid, f)
actual_for_supplier ==
    \E uid \in Ids(users), f \in RelinkTargetForms : targets_supplier_actual(uid, f)

NextRelink ==
    \/ order_for_supplier
    \/ target_for_supplier
    \/ actual_for_supplier
    \/ fix_suppliers_begin
    \/ fix_suppliers_ensure
    \/ fix_suppliers_relink
    \/ fix_suppliers_delete
    \/ merge_commit
    \/ merge_crash

SpecRelink == InitOrders /\ [][NextRelink]_vars

-----------------------------------------------------------------------------
(* Specification of the backfill: reconcile and the first importer, which      *)
(* writes the legacy name alone, run on the same store                         *)

legacy_import == \E r \in LegacyRows : import_products_main(r)

NextBackfill == Reconcile \/ legacy_import

SpecBackfill == InitSchema /\ [][NextBackfill]_vars

-----------------------------------------------------------------------------
(* Specification of the readers on an order of an earlier era: the store holds *)
(* one order written before line items were stored, or with them stored      *)

LegacyOrder(pid, qty, price, total, text) ==
    [order_no |-> "ORD-20250101-0001", created_at |-> "2025-01-01", total |-> total,
     rep |-> NoRep, supplier_id |-> NoNumber, product_id |-> pid, quantity |-> qty,
     unit_price |-> price, status |-> "Pending", delivery_date |-> NULL,
     line_items |-> text, sales_rep_name |-> NULL]

LegacyOrders ==
    {LegacyOrder(pid, qty, price, total, text) :
        pid \in {NoNumber, 1, 9}, qty \in {NoNumber, 2}, price \in {NoNumber, 100000},
        total \in {NoNumber, 250000}, text \in LineItemTexts}

InitLegacy ==
    /\ LET st == ensure_schema([schema |-> OrdersShape(EmptySchema, "baseline"),
                                products |-> OrderCatalog, users |-> <<>>,
                                nextUserId |-> 1])
       IN /\ schema = st.schema
          /\ users = st.users
          /\ nextUserId = st.nextUserId
          /\ products = st.products
    /\ schemaLog = [last |-> "none", twice |-> FALSE, raised |-> FALSE,
                    before |-> <<>>, after |-> <<>>]
    /\ suppliers = (1 :> "Haco Ind")
    /\ nextSupplierId = 2
    /\ nextProductId = 3
    /\ catalogLog = NoLog
    /\ \E o \in LegacyOrders : orders = <<o>>
    /\ today = 1
    /\ req = [p \in Procs |-> Idle]
    /\ orderLog = NoOrderLog
    /\ InitTargetVars
    /\ InitCanonVars
    /\ InitTxn
    /\ InitViewLog

\* what the line_items column of each stored order loads as
LoadedText(ords) == [i \in 1..Len(ords) |-> json_loads_items(ords[i].line_items)]

read_legacy_sheet ==
    \E uid \in Ids(users), id \in 1..(Len(orders) + 1) :
        orders_sheet(uid, id, IF id \in 1..Len(orders) THEN LoadedText(orders)[id] ELSE <<>>)
read_legacy_history == \E uid \in Ids(users) : orders_history(uid, LoadedText(orders))

NextLegacy == read_legacy_sheet \/ read_legacy_history

SpecLegacy == InitLegacy /\ [][NextLegacy]_vars

-----------------------------------------------------------------------------
(* Specification of the history of orders the application stored              *)

\* what the line_items column of each order stored by orders_new loads as: the
\* lines json.dumps wrote (integers, floats, None and text are read back as written)
LoadedLines(ords) == [i \in 1..Len(ords) |-> ords[i].line_items]

read_order_history == \E uid \in Ids(users) : orders_history(uid, LoadedLines(orders))

NextHistory == create_order \/ read_order_history

SpecHistory == InitOrders /\ [][NextHistory]_vars

-----------------------------------------------------------------------------
(* Specification of uploads that overlap: two products_upload requests, each   *)
(* on its own connection, run statement by statement                           *)

\* the rows of the files uploaded at once
OverlapRows ==
    { [supplier |-> "Haco Ind",   product |-> "Salt 1 x 48", pack |-> "Z"],
      [supplier |-> "Haco Industries Ltd", product |-> "Salt 1x48", pack |-> ""],
      [supplier |-> "",           product |-> "Salt",        pack |-> ""] }

OverlapFiles == {rows \in RowSeqs : \A i \in DOMAIN rows : rows[i] \in OverlapRows}

UploadStates == {"upload_row", "upload_insert_supplier", "upload_load",
                 "upload_insert_product"}

\* get_db(): a connection of the request's own, with no transaction open, and
\* existing_by_supplier = {}
NoConn == [st |-> ImportStart(<<>>, <<>>, 0, 0), writing |-> FALSE, sid |-> 0]

\* the connection of request p has run an INSERT and has not committed: sqlite3
\* opened a transaction before the INSERT and the connection holds the write lock
Writing(p) == req[p].state \in UploadStates /\ req[p].row.writing

\* no other connection holds the write lock
LockFree(p) == \A q \in Procs \ {p} : ~Writing(q)

\* what the statements of request p read and write: its own uncommitted work
\* once it has written, and the store as committed before that
UploadView(p) ==
    IF req[p].row.writing THEN req[p].row.st
    ELSE [req[p].row.st EXCEPT !.suppliers = suppliers, !.products = products,
                               !.nextSupplierId = nextSupplierId,
                               !.nextProductId = nextProductId]

\* SELECT id FROM suppliers WHERE lower(name)=lower(?): the id, 0 for no row
SelectSupplier(supps, nm) ==
    LET hit == {i \in Ids(supps) : Lower(supps[i]) = Lower(nm)}
    IN IF hit = {} THEN 0 ELSE FirstId(hit)

\* the request moves on and leaves the store as committed
UploadStep(p, state, form, conn) ==
    /\ req' = [req EXCEPT ![p] = [state |-> state, form |-> form, row |-> conn]]
    /\ UNCHANGED <<catalogVars, schemaVars, orders, today, orderLog, targetVars,
                   canonVars, txn, viewLog>>

\* the request ends: the connection is closed
UploadEnd(p, op, st) ==
    /\ req' = [req EXCEPT ![p] = Idle]
    /\ catalogLog' = [NoLog EXCEPT !.op = op, !.impl = "upload", !.added = st.added,
                                   !.skipped = st.skipped]
    /\ UNCHANGED <<schemaVars, orders, today, orderLog, targetVars, canonVars, txn,
                   viewLog>>

\* products_upload up to the loop: the file is read and the connection opened
upload_begin(p, rows) ==
    /\ req[p] = Idle
    /\ UploadStep(p, "upload_row", rows, NoConn)

\* the head of the loop and the SELECT of _upsert_supplier
upload_select(p) ==
    /\ req[p].state = "upload_row"
    /\ req[p].form # <<>>
    /\ LET r == Head(req[p].form)
           c == req[p].row
           sid == SelectSupplier(UploadView(p).suppliers, Strip(r.supplier))
       IN IF Strip(r.supplier) = "" \/ Strip(r.product) = ""
          THEN UploadStep(p, "upload_row", Tail(req[p].form),
                          [c EXCEPT !.st.skipped = @ + 1])
          ELSE IF sid # 0
          THEN UploadStep(p, "upload_load", req[p].form, [c EXCEPT !.sid = sid])
          ELSE UploadStep(p, "upload_insert_supplier", req[p].form, c)

\* the INSERT of _upsert_supplier, once the write lock is free
upload_insert_supplier(p) ==
    /\ req[p].state = "upload_insert_supplier"
    /\ LockFree(p)
    /\ UploadView(p).nextSupplierId <= MaxSupplierId
    /\ LET st == UploadView(p)
       IN UploadStep(p, "upload_load", req[p].form,
                     [st |-> [st EXCEPT !.suppliers = Put(@, st.nextSupplierId,
                                                          Strip(Head(req[p].form).supplier)),
                                        !.nextSupplierId = @ + 1],
                      writing |-> TRUE, sid |-> st.nextSupplierId])

\* _load_existing(sid) and the test of the row's key against the loaded keys
upload_load(p) ==
    /\ req[p].state = "upload_load"
    /\ LET r == Head(req[p].form)
           c == req[p].row
           existing == _load_existing(c.st.existing, UploadView(p).products, c.sid)
       IN IF _canon_pair(Strip(r.product), Strip(r.pack)) \in existing[c.sid]
          THEN UploadStep(p, "upload_row", Tail(req[p].form),
                          [c EXCEPT !.st.existing = existing, !.st.skipped = @ + 1])
          ELSE UploadStep(p, "upload_insert_product", req[p].form,
                          [c EXCEPT !.st.existing = existing])

\* the INSERT INTO products, once the write lock is free; an IntegrityError ends
\* the request and its transaction is rolled back
upload_insert_product(p) ==
    /\ req[p].state = "upload_insert_product"
    /\ LockFree(p)
    /\ UploadView(p).nextProductId <= MaxProductId
    /\ LET r == Head(req[p].form)
           c == req[p].row
           st == InsertProduct(schema, UploadView(p), c.st.existing, c.sid,
                               _canon_pair(Strip(r.product), Strip(r.pack)),
                               ProductRow(schema, c.sid, Strip(r.product), Strip(r.pack),
                                          Strip(r.product)))
       IN IF st.failed
          THEN /\ UploadEnd(p, "upload_failed", st)
               /\ UNCHANGED <<suppliers, products, nextSupplierId, nextProductId>>
          ELSE UploadStep(p, "upload_row", Tail(req[p].form),
                          [c EXCEPT !.st = st, !.writing = TRUE])

\* conn.commit() after the loop: the connection's work becomes the store
upload_commit(p) ==
    /\ req[p].state = "upload_row"
    /\ req[p].form = <<>>
    /\ LET st == UploadView(p)
       IN /\ suppliers' = st.suppliers
          /\ products' = st.products
          /\ nextSupplierId' = st.nextSupplierId
          /\ nextProductId' = st.nextProductId
          /\ UploadEnd(p, "upload", st)

\* an INSERT while another connection holds the write lock waits for the lock;
\* when the wait outlasts the connection's timeout sqlite3 raises OperationalError
\* (database is locked) and the request ends.  The request has written nothing.
upload_locked(p) ==
    /\ req[p].state \in {"upload_insert_supplier", "upload_insert_product"}
    /\ ~LockFree(p)
    /\ UploadEnd(p, "upload_locked", req[p].row.st)
    /\ UNCHANGED <<suppliers, products, nextSupplierId, nextProductId>>

upload_file == \E p \in Procs, rows \in OverlapFiles : upload_begin(p, rows)
upload_next_row == \E p \in Procs : upload_select(p)
upload_new_supplier == \E p \in Procs : upload_insert_supplier(p)
upload_keys == \E p \in Procs : upload_load(p)
upload_new_product == \E p \in Procs : upload_insert_product(p)
upload_done == \E p \in Procs : upload_commit(p)
upload_timeout == \E p \in Procs : upload_locked(p)

NextOverlap ==
    \/ upload_file
    \/ upload_next_row
    \/ upload_new_supplier
    \/ upload_keys
    \/ upload_new_product
    \/ upload_done
    \/ upload_timeout

SpecOverlap == InitCatalog /\ [][NextOverlap]_vars

-----------------------------------------------------------------------------
(* Properties                                                                *)

Terminal == {"Delivered", "Cancelled"}

\* C1, as the specification words it: Delivered and Cancelled are terminal; no
\* status update changes the status of an order that is Delivered or Cancelled.
C1_TerminalStatuses ==
    [][\A i \in 1..Len(orders) :
          orders[i].status \in Terminal => orders'[i].status = orders[i].status]_vars

\* C1, as the code has it: a status update whose requested value, trimmed and
\* title-cased, is Pending, Delivered or Cancelled sets the order's status to that
\* value whatever the current status is (Delivered and Cancelled included); any
\* other requested value, or an unknown order id, changes no order; so the status
\* of every order is always one of the three.
C1_AnyStatusFromAny ==
    [][/\ \A i \in 1..Len(orders) : orders[i].status \in Statuses
       /\ orderLog'.op \in {"status", "invalid_status"} =>
            /\ Len(orders') = Len(orders)
            /\ orderLog'.op = "status" <=> orderLog'.to \in Statuses
            /\ \A i \in 1..Len(orders) :
                  orders'[i].status =
                      IF orderLog'.op = "status" /\ orderLog'.id = i
                      THEN orderLog'.to ELSE orders[i].status]_vars

\* C1: an order that was Delivered has been set back to Pending
C1_Reopened ==
    /\ orderLog.op = "status"
    /\ orderLog.from = "Delivered"
    /\ orderLog.to = "Pending"
    /\ orders[orderLog.id].status = "Pending"

\* C2: under any interleaving of order creations, two of them numbered on the same
\* day before either inserts included, no two stored orders have the same order_no.
C2_UniqueOrderNo ==
    \A i, j \in 1..Len(orders) : i # j => orders[i].order_no # orders[j].order_no

\* C2: both requests hold the same number, one is stored, the other was refused by
\* the unique index
C2_SecondInsertRefused ==
    /\ orderLog.op = "integrity_error"
    /\ \E i \in 1..Len(orders) :
          orders[i].order_no = generate_order_no(<<>>, today)

\* C3: the stored total is the override when it is positive, else the sum of the
\* stored line amounts rounded to two decimals; for lines (2 x 100) and (1 x 50)
\* it is 250.00 without an override and 300.00 with an override of 300, the line
\* amounts summing to 250.00 in both cases.  Amounts are in thousandths.
C3_TotalOverride ==
    orderLog.op = "created" =>
        LET o == orders[orderLog.id]
            f == orderLog.form
            sum == SumAmounts(o.line_items)
        IN /\ FloatOk(f.amount) /\ FloatMills(f.amount) > 0 => o.total = FloatMills(f.amount)
           /\ ~(FloatOk(f.amount) /\ FloatMills(f.amount) > 0) => o.total = Round2(sum)
           /\ f.lines = <<LineA, LineB>> =>
                 /\ sum = 250000
                 /\ f.amount = "" => o.total = 250000
                 /\ f.amount = "300" => o.total = 300000

\* C3: an order stored with an override of 300 over lines that sum to 250.00
C3_OverrideStored ==
    /\ orderLog.op = "created"
    /\ orderLog.form.amount = "300"
    /\ orderLog.form.lines = <<LineA, LineB>>
    /\ orders[orderLog.id].total = 300000
    /\ SumAmounts(orders[orderLog.id].line_items) = 250000

PairKeysUnique(prods) ==
    \A i, j \in Ids(prods) :
        i # j /\ prods[i].supplier_id = prods[j].supplier_id
            => StoredKey(prods[i]) # StoredKey(prods[j])

\* C4: from a catalog where no supplier has two products of equal pair key, after
\* any sequence of imports run one at a time no supplier has two products whose
\* pair keys are equal.
C4_PairKeysUnique == PairKeysUnique(products)

\* C4: an import has added a product to a supplier and skipped a row whose key the
\* supplier already had
C4_DuplicateSkipped ==
    /\ catalogLog.op = "import"
    /\ catalogLog.added > 0
    /\ catalogLog.skipped > 0
    /\ \E i, j \in Ids(products) : i # j /\ products[i].supplier_id = products[j].supplier_id

MatchesVariant(name, variants) ==
    \E v \in DOMAIN variants : _norm(name) = _norm(variants[v])

\* C5: after merge_supplier every product that was owned by a supplier row matching
\* a variant name is owned by the canonical supplier, and no supplier row other
\* than the canonical one has the normalized name of a variant.
C5_MergePostcondition ==
    catalogLog.op = "merge" =>
        /\ \A i \in Ids(catalogLog.preProducts) :
              /\ catalogLog.preProducts[i].supplier_id \in Ids(catalogLog.preSuppliers)
              /\ MatchesVariant(catalogLog.preSuppliers[catalogLog.preProducts[i].supplier_id],
                                catalogLog.variants)
              => /\ i \in Ids(products)
                 /\ products[i].supplier_id = catalogLog.goodId
        /\ \A sid \in Ids(suppliers) :
              sid # catalogLog.goodId => ~MatchesVariant(suppliers[sid], catalogLog.variants)

\* C6: no order is stored without a representative.
C6_RepresentativeStored ==
    \A i \in 1..Len(orders) : orders[i].rep # NoRep

\* C7: every stored line item references a product of the catalog.
C7_LinesReferToProducts ==
    \A i \in 1..Len(orders) : \A k \in 1..Len(orders[i].line_items) :
        orders[i].line_items[k].product_id \in Ids(products)

\* C8: the second of two reconciles in a row adds no table, column or index and
\* leaves every row and value, the user accounts included, as they were.
C8_ReconcileTwice ==
    schemaLog.twice =>
        /\ schemaLog.after.schema = schemaLog.before.schema
        /\ schemaLog.after.products = schemaLog.before.products
        /\ schemaLog.after.users = schemaLog.before.users

\* C8: a second reconcile in a row has run on a store holding tables and accounts
C8_SecondReconcile ==
    /\ schemaLog.twice
    /\ ~schemaLog.raised
    /\ table_exists(schema, "orders")
    /\ HasUser(users, "admin") /\ HasUser(users, "staff")

UserNames(us) == {us[i].username : i \in Ids(us)}

SupplierNames == {Strip(r.supplier) : r \in RowInputs} \ {""}

\* the two names differ in letter case or in whitespace only
SameButCaseAndSpace(a, b) == Lower(SplitJoin(a)) = Lower(SplitJoin(b))

\* C10: for a name that differs from an existing supplier's name in case or
\* whitespace only (the number of spaces between words included), _upsert_supplier
\* returns that supplier's id and inserts no row.
C10_UpsertFindsVariant ==
    \A n \in SupplierNames :
        (\E i \in Ids(suppliers) : SameButCaseAndSpace(suppliers[i], n)) =>
            LET up == _upsert_supplier(suppliers, nextSupplierId, n)
            IN /\ up.suppliers = suppliers
               /\ up.id \in Ids(suppliers)
               /\ SameButCaseAndSpace(suppliers[up.id], n)


Catalog ==
    [suppliers |-> suppliers, products |-> products, nextSupplierId |-> nextSupplierId,
     nextProductId |-> nextProductId]

\* one import pass over rows, on the catalog st
ImportPass(st, rows, impl) ==
    ImportRows(schema,
               ImportStart(st.suppliers, st.products, st.nextSupplierId, st.nextProductId),
               rows, impl)

Impls == {"upload", "seed"}

\* the products of the supplier named as the row names it whose pair key is the row's
SameKeyProducts(supps, prods, r) ==
    {i \in Ids(prods) :
        /\ prods[i].supplier_id \in Ids(supps)
        /\ Lower(supps[prods[i].supplier_id]) = Lower(Strip(r.supplier))
        /\ _canon_pair(Coalesce3(prods[i].product_name, prods[i].name, ""),
                       Coalesce2(prods[i].unit_pack_info, ""))
             = _canon_pair(Strip(r.product), Strip(r.pack))}

RowComplete(r) == Strip(r.supplier) # "" /\ Strip(r.product) # ""

\* what C11 asks of a first pass p1 over rows and of a second pass p2 over them
Reimported(rows, p1, p2) ==
    ~p1.failed =>
        /\ ~p2.failed
        /\ p2.added = 0
        /\ p2.skipped = Len(rows)
        /\ p2.products = p1.products
        /\ p2.suppliers = p1.suppliers
        /\ (/\ Len(rows) = 1
            /\ RowComplete(rows[1])
            /\ SameKeyProducts(suppliers, products, rows[1]) = {})
             => /\ p1.added = 1
                /\ p2.skipped = 1
                /\ Cardinality(SameKeyProducts(p2.suppliers, p2.products, rows[1])) = 1

\* the first pass p1 over rows, followed by a second pass of the same importer
ThenReimported(rows, p1, impl) == Reimported(rows, p1, ImportPass(p1, rows, impl))

MissingRows(rows) == {k \in 1..Len(rows) : ~RowComplete(rows[k])}

\* the pass p over rows counted as skipped the rows it found stored, and no other
SkippedAreDuplicates(rows, p) ==
    ~p.failed => p.skipped = Len(rows) - Cardinality(MissingRows(rows)) - p.added

\* C12: the skip count an import returns is the number of rows skipped as
\* duplicates; no row skipped for a missing supplier or product name is in it.
C12_SkippedExcludesMissing ==
    \A rows \in RowSeqs, impl \in Impls :
        SkippedAreDuplicates(rows, ImportPass(Catalog, rows, impl))

\* whole currency units as mills
Units(n) == n * 1000

\* the figures of a rendered dashboard, as the specification words C13
ZeroRemaining(target_total, mtd, ratio, rest) ==
    /\ target_total = 0 => RatioIs(ratio, 0) /\ rest = 0
    /\ target_total = Units(1000) /\ mtd = Units(250)
         => RatioIs(ratio, 25) /\ rest = Units(750)

\* the figures of a rendered dashboard, as the code computes them
ClampedRemaining(target_total, mtd, ratio, rest) ==
    /\ target_total = 0 => RatioIs(ratio, 0) /\ rest = (IF mtd >= 0 THEN 0 ELSE -mtd)
    /\ target_total = Units(1000) /\ mtd = Units(250)
         => RatioIs(ratio, 25) /\ rest = Units(750)

\* C13, as the specification words it: with a target total of 0 progress is ratio 0
\* and remaining 0 whatever the stored actual is, negative actuals included; with
\* target 1000 and actual 250 it is ratio 25 and remaining 750.
C13_ZeroTargetZeroRemaining ==
    targetLog.op = "dashboard" =>
        /\ ZeroRemaining(targetLog.view.supplier_target_total, targetLog.view.s_mtd,
                         targetLog.view.supplier_progress,
                         targetLog.view.supplier_remaining)
        /\ ZeroRemaining(targetLog.view.rep_target_total, targetLog.view.r_mtd,
                         targetLog.view.rep_progress, targetLog.view.rep_remaining)

\* C13, as the code has it: with a target total of 0 the ratio is 0 and remaining is
\* max(0 - actual, 0), which is 0 for an actual of 0 or more and the actual's
\* magnitude for a negative actual; with target 1000 and actual 250 it is ratio 25
\* and remaining 750.
C13_ZeroTargetRemaining ==
    targetLog.op = "dashboard" =>
        /\ ClampedRemaining(targetLog.view.supplier_target_total, targetLog.view.s_mtd,
                            targetLog.view.supplier_progress,
                            targetLog.view.supplier_remaining)
        /\ ClampedRemaining(targetLog.view.rep_target_total, targetLog.view.r_mtd,
                            targetLog.view.rep_progress, targetLog.view.rep_remaining)

\* C13: a dashboard rendered with no supplier target and a negative supplier actual,
\* and with rep target 1000 and rep actual 250
C13_NegativeActualRendered ==
    /\ targetLog.op = "dashboard"
    /\ targetLog.view.supplier_target_total = 0
    /\ targetLog.view.s_mtd = Units(-50)
    /\ targetLog.view.supplier_remaining = Units(50)
    /\ targetLog.view.rep_target_total = Units(1000)
    /\ targetLog.view.r_mtd = Units(250)


Tables == <<rep_targets, supplier_targets, supplier_actuals, rep_actuals>>

\* no two records of the table have the same (owner id, month, year)
OnePerKey(rows) == \A i, j \in 1..Len(rows) : SameKey(rows[i], rows[j]) => i = j

\* the records of the table whose key is not that of r, by id
OtherKeys(rows, r) == {<<i, rows[i]>> : i \in {j \in 1..Len(rows) : ~SameKey(rows[j], r)}}

\* the form's key fields parse and pass the validation, and its value parses
Accepted(f) ==
    /\ FormParses(f)
    /\ IntOf(OrZero(f.owner)) > 0
    /\ IntOf(OrZero(f.month)) \in 1..12
    /\ IntOf(OrZero(f.year)) >= 2000

AcceptedForms == {f \in TargetForms : Accepted(f)}

\* the forms that parse and whose month, year or owner id is out of range
OutOfRangeForms == {f \in TargetForms : FormParses(f) /\ ~Accepted(f)}

\* the record an accepted form asks to store
FormRecord ==
    [f \in AcceptedForms |->
        [owner |-> IntOf(OrZero(f.owner)), month |-> IntOf(OrZero(f.month)),
         year |-> IntOf(OrZero(f.year)), value |-> FloatMills(OrZero(f.value))]]

\* after an accepted write of record r the table, which was before, holds one record
\* of r's key, with r's value, and its other records as they were
Written(before, after, r) ==
    /\ OnePerKey(after)
    /\ \E i \in 1..Len(after) : after[i] = r
    /\ OtherKeys(after, r) = OtherKeys(before, r)

\* the last request was this handler, with an accepted form
AcceptedBy(log, op) == log.op = op /\ log.form \in AcceptedForms

\* C14: every table of targets and actuals holds at most one record per (owner id,
\* month, year); an accepted write leaves the record of its key with the value
\* written, and leaves the records of every other key, and the other tables, as they
\* were.
C14_LastWriteWins ==
    [][/\ AcceptedBy(targetLog', "targets_rep_add")
            => Written(rep_targets, rep_targets', FormRecord[targetLog'.form])
               /\ UNCHANGED <<supplier_targets, supplier_actuals, rep_actuals>>
       /\ AcceptedBy(targetLog', "targets_supplier_add")
            => Written(supplier_targets, supplier_targets', FormRecord[targetLog'.form])
               /\ UNCHANGED <<rep_targets, supplier_actuals, rep_actuals>>
       /\ AcceptedBy(targetLog', "targets_supplier_actual")
            => Written(supplier_actuals, supplier_actuals', FormRecord[targetLog'.form])
               /\ UNCHANGED <<rep_targets, supplier_targets, rep_actuals>>
       /\ AcceptedBy(targetLog', "targets_rep_actual")
            => Written(rep_actuals, rep_actuals', FormRecord[targetLog'.form])
               /\ UNCHANGED <<rep_targets, supplier_targets, supplier_actuals>>]_vars

\* C14: a write has just replaced the value of a key in a table that also holds a
\* record of another key
C14_ReplacedBesideOther ==
    /\ targetLog.outcome = "replaced"
    /\ targetLog.op = "targets_supplier_actual"
    /\ Len(supplier_actuals) = 2
    /\ OnePerKey(supplier_actuals)

\* C15: a write whose month is outside 1..12, whose year is below 2000 or whose
\* owner id is not positive is rejected and changes no target and no actual record.
C15_InvalidKeyRejected ==
    [][targetLog'.form \in OutOfRangeForms
          => /\ UNCHANGED <<rep_targets, supplier_targets, supplier_actuals, rep_actuals>>
             /\ targetLog'.outcome = "rejected"]_vars

\* C15: a write with an invalid key has just been rejected while records are stored
C15_RejectedWithRecords ==
    /\ targetLog.outcome = "rejected"
    /\ targetLog.form \in OutOfRangeForms
    /\ \A k \in 1..4 : Tables[k] # <<>>

\* C16: _canon is idempotent: applied to what it returned, it returns the same text.
C16_CanonIdempotent == Len(canonOut) = 2 => canonOut[2] = canonOut[1]

\* the unit spellings and the normal form of each
UnitSynonyms == {<<"pkt", "pk">>, <<"pkts", "pk">>, <<"gm", "g">>, <<"gms", "g">>,
                 <<"kgs", "kg">>, <<"mls", "ml">>}

\* C17: _canon maps every unit spelling to its normal form: after a quantity, with
\* or without a space before it, pkt and pkts become pk, gm and gms become g, kgs
\* becomes kg and mls becomes ml.
C17_UnitSynonymsNormalized ==
    \A u \in UnitSynonyms, sep \in {"", " "} :
        canonIn = "5" \o sep \o u[1] /\ Len(canonOut) >= 1
            => canonOut[1] = "5" \o sep \o u[2]


\* the orders stored up to and including order i that were created on its day
SameDayUpTo(ords, i) == {j \in 1..i : ords[j].created_at = ords[i].created_at}

\* the 4-digit ordinal at the end of an order number
OrdinalText(order_no) == SubSeq(order_no, Len(order_no) - 3, Len(order_no))

\* C18: with orders created one at a time, the k-th order created on a calendar day
\* has ordinal k; the first two orders of a day have ordinals 1 and 2.
C18_OrdinalIsRankOfDay ==
    \A i \in 1..Len(orders) :
        OrdinalText(orders[i].order_no) = ZeroPad(Cardinality(SameDayUpTo(orders, i)), 4)

\* C19: the header fields product_id, quantity and unit_price of every stored order
\* are those of the first line item of its stored line items.
C19_HeaderMirrorsFirstLine ==
    \A i \in 1..Len(orders) :
        /\ orders[i].line_items # <<>>
        /\ orders[i].product_id = orders[i].line_items[1].product_id
        /\ orders[i].quantity = orders[i].line_items[1].qty
        /\ orders[i].unit_price = orders[i].line_items[1].unit_price

\* C19: an order has just been stored with two line items of different products,
\* quantities and prices
C19_TwoLinesStored ==
    /\ orderLog.op = "created"
    /\ Len(orders[orderLog.id].line_items) >= 2
    /\ orders[orderLog.id].line_items[1].product_id
         # orders[orderLog.id].line_items[2].product_id
    /\ orders[orderLog.id].line_items[1].qty # orders[orderLog.id].line_items[2].qty
    /\ orders[orderLog.id].line_items[1].unit_price
         # orders[orderLog.id].line_items[2].unit_price


\* every stored product's supplier_id is the id of a stored supplier
NoDanglingProduct == \A i \in Ids(products) : products[i].supplier_id \in Ids(suppliers)

\* the stored suppliers and products are what a whole run of the script on an entry
\* of MERGES leaves of before
WholeMerge(before, supps, prods) ==
    \E m \in MergeInputs :
        /\ MergeEntry(before, m).suppliers = supps
        /\ MergeEntry(before, m).products = prods

\* C20: whenever the merge script dies before its commit, the stored catalog has no
\* product of a supplier that is not stored, and it changes only from what it was
\* before the script to what the whole merge leaves: the re-link of a variant's
\* products and the deletion of the variant take effect together or not at all.
C20_MergeAllOrNothing ==
    [][/\ NoDanglingProduct'
       /\ (suppliers' # suppliers \/ products' # products)
            => WholeMerge(Persisted, suppliers', products')]_vars

\* C20: the script has just died after the re-link of a variant and before the
\* deletion of its row, and the variant's row and its products are stored as before
C20_CrashedBeforeDelete ==
    /\ catalogLog.op = "crash_delete"
    /\ txn = NoTxn
    /\ \E i \in Ids(suppliers), j \in Ids(products) :
          /\ Norm(suppliers[i]) = Norm("Haco Ind")
          /\ products[j].supplier_id = i

\* the stored suppliers whose normalized name is that of name
RowsNamed(supps, name) == {i \in Ids(supps) : Norm(supps[i]) = Norm(name)}

\* C21: when a merge pass for a canonical name has completed, at most one stored
\* supplier has a name whose normalized form is the normalized canonical name,
\* whatever suppliers were stored before the pass.
C21_OneRowPerCanonicalName ==
    catalogLog.op = "merge_commit" =>
        \A m \in MergeInputs : Cardinality(RowsNamed(suppliers, m.good)) <= 1


\* the stored suppliers whose normalized name is that of a variant of the entry
VariantRows(supps, m) == {i \in Ids(supps) : MatchesVariant(supps[i], m.bad_variants)}

\* the pass for entry m, which found the store as before and left it as after, kept
\* every supplier row and every product's supplier, and named a variant row with the
\* canonical name
RenamedInPlace(m, before, after) ==
    /\ Ids(after.suppliers) = Ids(before.suppliers)
    /\ \E i \in VariantRows(before.suppliers, m) :
          after.suppliers[i] = Strip(SplitJoin(m.good))
    /\ after.products = before.products

\* C23: a merge pass that finds no supplier of the canonical name and a supplier of
\* a variant name renames that row to the canonical name: the row keeps its id, no
\* supplier row is inserted or deleted, and every product keeps its supplier id.
C23_VariantRenamedInPlace ==
    [][\A m \in MergeInputs :
          /\ catalogLog'.op = "merge_commit"
          /\ RowsNamed(suppliers, m.good) = {}
          /\ VariantRows(suppliers, m) # {}
          => RenamedInPlace(m, Persisted, [suppliers |-> suppliers', products |-> products'])]_vars


\* C28: a merge that finds no supplier with two products of equal pair key leaves
\* none: after a variant's products are re-linked, the canonical supplier has no
\* two products whose pair keys are equal.
C28_MergeKeepsPairKeysUnique ==
    catalogLog.op = "merge" /\ PairKeysUnique(catalogLog.preProducts)
        => PairKeysUnique(products)


\* the supplier ids that stored orders, their line items, and the supplier targets
\* and actuals name
SupplierRefs ==
    {orders[i].supplier_id : i \in 1..Len(orders)}
    \cup UNION {{orders[i].line_items[k].supplier_id : k \in 1..Len(orders[i].line_items)} :
                  i \in 1..Len(orders)}
    \cup {supplier_targets[i].owner : i \in 1..Len(supplier_targets)}
    \cup {supplier_actuals[i].owner : i \in 1..Len(supplier_actuals)}

\* C27: after a merge has deleted a variant's supplier row, no order header, no
\* stored line item, no supplier target and no supplier actual names the deleted
\* supplier id.
C27_NoReferenceToDeleted ==
    [][catalogLog'.op = "merge_commit"
          => (Ids(suppliers) \ Ids(suppliers')) \cap SupplierRefs' = {}]_vars


\* the delivery date C24 asks order i to have after the request the log records
DeliveryDateAfter(log, before, i, day) ==
    IF log.op = "status" /\ log.id = i /\ log.to = "Delivered"
          /\ before[i].delivery_date = NULL
    THEN DayIso(day) ELSE before[i].delivery_date

\* C24: a status update to Delivered sets the delivery date of its order to today
\* when none is stored; it leaves a stored delivery date as it is, and an update to
\* another status, or of another order, changes no delivery date.
C24_DeliveryDateSetOnce ==
    [][orderLog'.op \in {"status", "invalid_status"}
          => /\ Len(orders') = Len(orders)
             /\ \A i \in 1..Len(orders) :
                   orders'[i].delivery_date = DeliveryDateAfter(orderLog', orders, i, today)]_vars

\* C24: an order with a stored delivery date has just been set to Delivered and has
\* kept it, beside an order delivered on a later day than it was created, whose
\* delivery date is that day
C24_DeliveredKeepsDate ==
    /\ orderLog.op = "status" /\ orderLog.to = "Delivered"
    /\ orderLog.id \in 1..Len(orders)
    /\ orders[orderLog.id].delivery_date = "2025-01-09"
    /\ \E j \in 1..Len(orders) :
          /\ orders[j].status = "Delivered"
          /\ orders[j].delivery_date = DayIso(today)
          /\ orders[j].created_at # DayIso(today)


\* the submitted line names a product id and a quantity that are positive numbers
UsableLine(l) ==
    /\ l.product_id # "" /\ IntOk(l.product_id) /\ IntOf(l.product_id) > 0
    /\ l.qty # "" /\ FloatOk(l.qty) /\ FloatMills(l.qty) >= 1000

UsableLines(f) == {k \in 1..Len(f.lines) : UsableLine(f.lines[k])}

\* the stored order has a line, and each of its lines a positive whole quantity and
\* a positive product id
StoredLinesOk(o) ==
    /\ o.line_items # <<>>
    /\ \A k \in 1..Len(o.line_items) :
          /\ o.line_items[k].qty \in Nat \ {0}
          /\ o.line_items[k].product_id \in Nat \ {0}

\* C25: no stored order has zero line items or a line whose quantity is not a
\* positive integer: a submitted line whose quantity or product id is missing,
\* invalid or not positive is not stored, and a request none of whose lines remains
\* is rejected and leaves the stored orders as they were.
C25_NoEmptyOrder ==
    [][/\ \A i \in 1..Len(orders') : StoredLinesOk(orders'[i])
       /\ orderLog'.op = "rejected" => orders' = orders
       /\ orderLog'.op \in {"rejected", "numbered", "created", "integrity_error"}
            => /\ UsableLines(orderLog'.form) = {} => orderLog'.op = "rejected"
               /\ orderLog'.op = "created"
                    => Len(orders'[orderLog'.id].line_items)
                          <= Cardinality(UsableLines(orderLog'.form))]_vars

\* C25: a request whose lines all lack a usable quantity or product id has just
\* been rejected, and a stored order holds two of the three lines submitted for it
C25_AllLinesDropped ==
    /\ orderLog.op = "rejected"
    /\ orderLog.form.uid = 2
    /\ Len(orderLog.form.lines) = 3
    /\ UsableLines(orderLog.form) = {}
    /\ \E i \in 1..Len(orders) :
          /\ Len(orders[i].line_items) = 2
          /\ orders[i].line_items[1].product_id = 9


Blank(x) == x = NULL \/ x = ""

\* the product row a of after reconcile is the row b of before it with product_name
\* taken from the legacy name where it was blank, and left alone where it was not
Backfilled(b, a) ==
    /\ Blank(b.product_name) /\ ~Blank(b.name) => a.product_name = b.name
    /\ ~Blank(b.product_name) => a.product_name = b.product_name

\* C26: when reconcile has returned, every product whose product_name was null or
\* empty and whose legacy name is not has its legacy name as product_name, and
\* every product whose product_name was not empty has it unchanged.
C26_BackfillWhereEmpty ==
    schemaLog.last = "reconcile" /\ ~schemaLog.raised
        => \A i \in Ids(schemaLog.before.products) :
              /\ i \in Ids(schemaLog.after.products)
              /\ Backfilled(schemaLog.before.products[i], schemaLog.after.products[i])


\* the order has no stored line-item collection: the column is NULL, empty or not JSON
NoStoredItems(o) == o.line_items \in {NULL, "", "[]", "{oops"}

\* two shown lines carry the same product reference, quantity, unit price and amount
SameLine(a, b) ==
    /\ a.label = b.label
    /\ a.qty = b.qty
    /\ a.unit_price = b.unit_price
    /\ a.amount = b.amount

\* C22: for an order with no stored line-item collection the order sheet and the
\* order history each show exactly one line, made of the order's own product,
\* quantity, unit price and total, and the two lines carry the same product
\* reference, quantity, unit price and amount.
C22_SynthesizedLineUniform ==
    \A k \in 1..Len(viewLog.entries) :
        NoStoredItems(orders[viewLog.entries[k].id])
            => /\ Len(viewLog.entries[k].items) = 1
               /\ viewLog.id = viewLog.entries[k].id
                    => /\ Len(viewLog.items) = 1
                       /\ SameLine(viewLog.items[1], viewLog.entries[k].items[1])

\* C29: the total the order history shows for an order is the order's stored total,
\* orders stored with a positive total override included.
C29_HistoryTotalIsStored ==
    \A k \in 1..Len(viewLog.entries) :
        viewLog.entries[k].total = orders[viewLog.entries[k].id].total


\* no two supplier rows carry the same name, letter case aside
SupplierNamesUnique(supps) ==
    \A i, j \in Ids(supps) : i # j => Lower(supps[i]) # Lower(supps[j])

\* C30: when two uploads overlap and each carries a row of the same supplier and
\* pair key that the catalog does not hold yet, at most one of them inserts the
\* product and at most one supplier row is created for the name: once both have
\* finished, no supplier has two products of equal pair key and no supplier name
\* has two rows.
C30_OverlappingUploadsInsertOnce ==
    (\A p \in Procs : req[p] = Idle)
        => PairKeysUnique(products) /\ SupplierNamesUnique(suppliers)


=============================================================================
